---- MODULE Spec2Model ----
(***************************************************************************)
(* The active-workout view-model (useWorkout), the backend tables it       *)
(* writes, and the screens that call it.  Every asynchronous operation is  *)
(* three steps: the call (client), the backend's execution of the request, *)
(* and the client's handling of the response.  A failing request is one    *)
(* step, taken when the client handles the failure: the backend changed    *)
(* nothing.                                                                *)
(***************************************************************************)
EXTENDS Integers, Sequences, FiniteSets, Bags, TLC

\* ------------------------------------------------------------- bounds
\* rows of workouts, rows of workout_sets, requests in flight and the latest
\* time stamp, under Spec (every operation) ...
MaxWorkouts == 1
MaxSets == 2
MaxReq == 1
MaxClock == 2
\* ... under SpecLog (startWorkout and logSet) ...
LogWorkouts == 2
LogSets == 3
LogReq == 2
\* ... and under SpecLife (startWorkout, resumeWorkout, completeWorkout,
\* abandonWorkout)
LifeWorkouts == 2
LifeReq == 2
LifeClock == 2
\* ... under SpecSwap (one session: logSet and swapExercise) ...
SwapWorkouts == 1
SwapSets == 2
SwapReq == 2
\* ... under SpecCard (one session and its set-input card)
CardWorkouts == 1
CardSets == 3
CardReq == 1
CardMaxRows == 2
\* ... under SpecReturn (every operation, the app staying open)
ReturnWorkouts == 1
ReturnSets == 1
ReturnReq == 1
ReturnClock == 1
\* ... under SpecPrev (sessions, their sets and getPreviousSets)
PrevWorkouts == 2
PrevSets == 2
PrevReq == 1
PrevClock == 2

\* ... under SpecTimer: the seconds the +15s button may reach
TimerMax == 150

\* ... under SpecRace (updateSet and deleteSet in flight together)
RaceWorkouts == 1
RaceSets == 3
RaceReq == 2

\* ... under SpecLate (responses that arrive after the session was closed)
LateWorkouts == 1
LateSets == 1
LateReq == 2
LateClock == 1

\* ... under SpecSave
SaveWorkouts == 1
SaveSets == 3
SaveReq == 2

\* ... under SpecMix
MixWorkouts == 1
MixSets == 1
MixReq == 2

\* ... under SpecAuth: the users, the calls of useAuth on their way, the auth
\* events not yet delivered
AuthUsers == 2
AuthReq == 2
AuthEvents == 2
\* ... under SpecFinish
FinishWorkouts == 1
FinishSets == 2
FinishReq == 1
FinishClock == 1
\* ... and under SpecStats (getWorkoutStats): the exercises of a list and the
\* sets of an exercise
StatsMaxExercises == 2
StatsMaxSets == 2
\* weight_kg is kept as a whole number of 1/WeightScale kg
WeightScale == 4
\* the exercise catalogue
NumExercises == 2

\* ------------------------------------------------------------- values
\* null and undefined of a nullable number
Null == 0 - 1
Undef == 0 - 2
\* state.workout === null; workout ids start at 1
NoWorkout == 0
\* user === null (useAuthContext); the signed-in user is 1
NoUser == 0
NoError == "<null>"

ExerciseIds == 1..NumExercises

\* template_exercises of the templates the user can start.  Template 2
\* lists exercise 1 twice with different targets.
TemplateExercises(t) ==
  IF t = 1
  THEN << [id |-> 1, exercise_id |-> 1, order_index |-> 0, target_sets |-> 2,
           target_reps |-> 5, rest_seconds |-> 60],
          [id |-> 2, exercise_id |-> 2, order_index |-> 1, target_sets |-> 1,
           target_reps |-> Null, rest_seconds |-> 120] >>
  ELSE << [id |-> 3, exercise_id |-> 1, order_index |-> 0, target_sets |-> 1,
           target_reps |-> 5, rest_seconds |-> 60],
          [id |-> 4, exercise_id |-> 1, order_index |-> 1, target_sets |-> 2,
           target_reps |-> 3, rest_seconds |-> 120] >>

TemplateIds == {1, 2}

\* the set data a caller passes to logSet, and the updates to updateSet
NoData == [set_number |-> 0, weight_kg |-> Null, reps |-> Null, is_warmup |-> FALSE]
SetInputs ==
  { [set_number |-> 1, weight_kg |-> 5, reps |-> 2, is_warmup |-> FALSE],
    [set_number |-> 2, weight_kg |-> Null, reps |-> 1, is_warmup |-> TRUE] }
SetUpdates ==
  { [set_number |-> 0, weight_kg |-> 4, reps |-> 3, is_warmup |-> FALSE] }

\* ------------------------------------------------------------- helpers
Range(s) == {s[i] : i \in DOMAIN s}
MapSeq(s, F(_)) == [i \in DOMAIN s |-> F(s[i])]
RECURSIVE SumSeq(_)
SumSeq(s) == IF s = <<>> THEN 0 ELSE Head(s) + SumSeq(Tail(s))
Max(a, b) == IF a >= b THEN a ELSE b
\* the sequences that list every element of S exactly once
Orderings(S) ==
  {p \in [1..Cardinality(S) -> S] : \A i, j \in DOMAIN p : i # j => p[i] # p[j]}

VARIABLES
  user,          \* useAuthContext().user
  template,      \* route.params.templateId of TemplateDetailScreen
  dbWorkouts,    \* table workouts: row id = index
  dbExercises,   \* table workout_exercises
  dbSets,        \* table workout_sets (a deleted row keeps its id)
  workout,       \* state.workout (its id)
  exercises,     \* state.exercises
  loading,       \* state.loading
  error,         \* state.error
  reqs,          \* requests in flight
  result,        \* the result tuple a call returns in this step (NoResult: none returns)
  stats,         \* what getWorkoutStats() returned last
  previous,      \* what getPreviousSets() returned last
  \* SetInputCard, shown for exercises[CurrentIndex]
  cardKey,       \* the [workoutExercise.id, workoutExercise.exercise_id] loadData ran for
  cardProps,     \* the workoutExercise loadData captured
  cardLoading,   \* loading
  rows,          \* sets: the rows of the card
  previousSets,  \* previousSets
  savingSet,     \* savingSet (rows are numbered from 1; 0 is null)
  \* ActiveWorkoutScreen
  showRestTimer,
  restDuration,
  showFinishModal,
  finishAlert,   \* the alert 'No Sets Logged' is open
  \* RestTimer
  remainingSeconds,
  isPaused,
  vibrated,      \* Vibration.vibrate was called since the timer was last shown
  \* useAuth
  auth,          \* state: session, user, profile, loading, error
  authOps,       \* the calls of useAuth that are on their way
  sb             \* the supabase client: its session and the auth events not yet delivered

authVars == <<auth, authOps, sb>>
vmVars == <<user, template, authVars, dbWorkouts, dbExercises, dbSets, workout, exercises, loading,
            error, reqs, result>>
cardVars == <<cardKey, cardProps, cardLoading, rows, previousSets, savingSet>>
finishVars == <<showFinishModal, finishAlert>>
screenVars == <<showRestTimer, restDuration, remainingSeconds, isPaused, vibrated, finishVars>>
vars == <<vmVars, cardVars, screenVars, stats, previous>>
\* what the view-model's operations leave alone
outside == <<cardVars, screenVars, stats, previous>>

dbVars == <<dbWorkouts, dbExercises, dbSets>>
stateVars == <<workout, exercises, loading, error>>

\* ------------------------------------------------------------- backend
Tombstone == [workout_exercise_id |-> 0, set_number |-> 0, weight_kg |-> Null,
              reps |-> Null, is_warmup |-> FALSE, deleted |-> TRUE]

\* the WorkoutSet the backend returns for row i of workout_sets
SetRow(i) ==
  [id |-> i, workout_exercise_id |-> dbSets[i].workout_exercise_id,
   set_number |-> dbSets[i].set_number, weight_kg |-> dbSets[i].weight_kg,
   reps |-> dbSets[i].reps, is_warmup |-> dbSets[i].is_warmup]

LiveSetIds == {i \in DOMAIN dbSets : ~dbSets[i].deleted}
SetIdsOf(weId) == {i \in LiveSetIds : dbSets[i].workout_exercise_id = weId}

\* the WorkoutExercise the backend returns for row i of workout_exercises
ExerciseRow(i) ==
  [id |-> i, workout_id |-> dbExercises[i].workout_id,
   exercise_id |-> dbExercises[i].exercise_id,
   order_index |-> dbExercises[i].order_index,
   template_exercise_id |-> dbExercises[i].template_exercise_id,
   is_substitution |-> dbExercises[i].is_substitution]

\* ------------------------------------------------------------- requests
\* cont: what the caller does when the call returns (the row of the card
\* that called and the restSeconds of its closure; NoCont: nothing)
NoCont == [row |-> 0, rest |-> 0]
NoReq == [op |-> "none", stage |-> "", a |-> 0, b |-> 0, data |-> NoData, rows |-> <<>>,
          cont |-> NoCont]
Req(op, a, b, data) == [NoReq EXCEPT !.op = op, !.stage = "sent", !.a = a, !.b = b, !.data = data]
InFlight == BagToSet(reqs)
Send(r) == reqs (+) SetToBag({r})
Replace(r, s) == (reqs (-) SetToBag({r})) (+) SetToBag({s})
Drop(r) == reqs (-) SetToBag({r})

\* ... reporting success whatever the error
ResultAlwaysSuccess(op, ok, err) == [op |-> op, success |-> TRUE, error |-> err]

Result(op, ok, err) == [op |-> op, success |-> ok, error |-> err]
NoResult == Result("none", TRUE, NoError)
\* a step in which no call returns
NoReturn == result' = NoResult

\* ------------------------------------------------------------- view-model
\* index of the first element of s that satisfies P, 0 when there is none
\* (Array.prototype.find)
FindIndex(s, P(_)) ==
  IF \E i \in DOMAIN s : P(s[i])
  THEN CHOOSE i \in DOMAIN s : P(s[i]) /\ \A j \in 1..(i - 1) : ~P(s[j])
  ELSE 0

\* a WorkoutExercise of state.exercises: the backend's row, the targets
\* startWorkout attaches and the sets
LocalExercise(row, targetSets, targetReps, restSeconds, sets) ==
  [id |-> row.id, workout_id |-> row.workout_id, exercise_id |-> row.exercise_id,
   order_index |-> row.order_index,
   template_exercise_id |-> row.template_exercise_id,
   is_substitution |-> row.is_substitution,
   targetSets |-> targetSets, targetReps |-> targetReps,
   restSeconds |-> restSeconds, sets |-> sets]

\* startWorkout: exercisesWithTargets
ExercisesWithTargets(data, t) ==
  MapSeq(data, LAMBDA ex :
    LET tes == TemplateExercises(t)
        k == FindIndex(tes, LAMBDA te : te.exercise_id = ex.exercise_id)
    IN  LocalExercise(ex,
          IF k = 0 THEN 3 ELSE tes[k].target_sets,
          IF k = 0 THEN Null ELSE tes[k].target_reps,
          IF k = 0 THEN 90 ELSE tes[k].rest_seconds,
          <<>>))

\* ... appending to every exercise
AppendSetEverywhere(exs, weId, newSet) ==
  MapSeq(exs, LAMBDA ex : [ex EXCEPT !.sets = Append(ex.sets, newSet)])

\* ... making a slot for a set whose slot is not in the list
AppendSetOrCreate(exs, weId, newSet) ==
  IF \E i \in DOMAIN exs : exs[i].id = weId
  THEN MapSeq(exs, LAMBDA ex :
         IF ex.id = weId THEN [ex EXCEPT !.sets = Append(ex.sets, newSet)] ELSE ex)
  ELSE Append(exs, LocalExercise([id |-> weId, workout_id |-> 0, exercise_id |-> 0,
                      order_index |-> 0, template_exercise_id |-> 0,
                      is_substitution |-> FALSE], Undef, Undef, Undef, <<newSet>>))

\* logSet: the state update after a successful insert
AppendSet(exs, weId, newSet) ==
  MapSeq(exs, LAMBDA ex :
    IF ex.id = weId THEN [ex EXCEPT !.sets = Append(ex.sets, newSet)] ELSE ex)

\* ... matching the position in the list instead of the id
ReplaceSetByPosition(exs, setId, updatedSet) ==
  MapSeq(exs, LAMBDA ex :
    [ex EXCEPT !.sets = [i \in DOMAIN ex.sets |->
                           IF i = setId THEN updatedSet ELSE ex.sets[i]]])

\* ... putting the updated set back when the list no longer holds it
ReplaceSetOrInsert(exs, setId, updatedSet) ==
  MapSeq(exs, LAMBDA ex :
    IF \E k \in DOMAIN ex.sets : ex.sets[k].id = setId
    THEN [ex EXCEPT !.sets = MapSeq(ex.sets, LAMBDA s :
                                 IF s.id = setId THEN updatedSet ELSE s)]
    ELSE IF ex.id = updatedSet.workout_exercise_id
         THEN [ex EXCEPT !.sets = Append(ex.sets, updatedSet)]
         ELSE ex)

\* updateSet: the state update after a successful update
ReplaceSet(exs, setId, updatedSet) ==
  MapSeq(exs, LAMBDA ex :
    [ex EXCEPT !.sets = MapSeq(ex.sets, LAMBDA s : IF s.id = setId THEN updatedSet ELSE s)])

\* deleteSet: the state update after a successful delete
RemoveSet(exs, setId, weId) ==
  MapSeq(exs, LAMBDA ex :
    IF ex.id = weId
    THEN [ex EXCEPT !.sets = SelectSeq(ex.sets, LAMBDA s : s.id # setId)]
    ELSE ex)

\* ... keeping the sets of the slot
ReplaceExerciseKeepSets(exs, weId, data) ==
  MapSeq(exs, LAMBDA ex :
    IF ex.id = weId THEN LocalExercise(data, Undef, Undef, Undef, ex.sets) ELSE ex)

\* ... replacing every slot
ReplaceExerciseEverywhere(exs, weId, data) ==
  MapSeq(exs, LAMBDA ex : LocalExercise(data, Undef, Undef, Undef, <<>>))

\* swapExercise: the state update after a successful update; data is the
\* backend's row, which carries no targets
ReplaceExercise(exs, weId, data) ==
  MapSeq(exs, LAMBDA ex :
    IF ex.id = weId THEN LocalExercise(data, Undef, Undef, Undef, <<>>) ELSE ex)

SlotIds == {exercises[i].id : i \in DOMAIN exercises}
Slot(weId) == exercises[CHOOSE i \in DOMAIN exercises : exercises[i].id = weId]
LocalSets == UNION {Range(exercises[i].sets) : i \in DOMAIN exercises}

\* ------------------------------------------------------------- startWorkout
\* TemplateDetailScreen: the Start button is disabled while starting or
\* while the view-model is loading
Starting == \E r \in InFlight : r.op = "start"

StartCall(t) ==
  /\ t = template
  /\ ~loading /\ ~Starting
  /\ IF user = NoUser
     THEN /\ result' = Result("startWorkout", FALSE, "Not authenticated")
          /\ UNCHANGED <<loading, error, reqs>>
     ELSE /\ loading' = TRUE
          /\ error' = NoError
          /\ reqs' = Send(Req("start", t, 0, NoData))
          /\ NoReturn
  /\ UNCHANGED <<user, template, authVars, dbVars, workout, exercises>>

\* the backend inserts the workout row; the client goes on to the second insert
StartInsertWorkout(r) ==
  /\ r.op = "start" /\ r.stage = "sent"
  /\ dbWorkouts' = Append(dbWorkouts,
       [template_id |-> r.a, status |-> "in_progress", completed_at |-> Null])
  /\ reqs' = Replace(r, [r EXCEPT !.stage = "sent2", !.b = Len(dbWorkouts) + 1])
  /\ UNCHANGED <<user, template, authVars, dbExercises, dbSets, stateVars>>
  /\ NoReturn

\* the backend inserts the workout_exercises rows and returns them
StartInsertExercises(r) ==
  /\ r.op = "start" /\ r.stage = "sent2"
  /\ LET tes == TemplateExercises(r.a)
         n == Len(dbExercises)
     IN /\ dbExercises' = dbExercises \o
             MapSeq(tes, LAMBDA te :
               [workout_id |-> r.b, exercise_id |-> te.exercise_id,
                order_index |-> te.order_index, template_exercise_id |-> te.id,
                is_substitution |-> FALSE])
        /\ reqs' = Replace(r, [r EXCEPT !.stage = "ok",
             !.rows = [i \in DOMAIN tes |->
               LocalExercise(
                 [id |-> n + i, workout_id |-> r.b, exercise_id |-> tes[i].exercise_id,
                  order_index |-> tes[i].order_index,
                  template_exercise_id |-> tes[i].id, is_substitution |-> FALSE],
                 Undef, Undef, Undef, <<>>)]])
  /\ UNCHANGED <<user, template, authVars, dbWorkouts, dbSets, stateVars>>
  /\ NoReturn

StartRespOk(r) ==
  /\ r.op = "start" /\ r.stage = "ok"
  /\ workout' = r.b
  /\ exercises' = ExercisesWithTargets(r.rows, r.a)
  /\ loading' = FALSE
  /\ error' = NoError
  /\ result' = Result("startWorkout", TRUE, NoError)
  /\ reqs' = Drop(r)
  /\ UNCHANGED <<user, template, authVars, dbVars>>

\* ... resetting the session
StartFailClears(r) ==
  /\ r.op = "start" /\ r.stage \in {"sent", "sent2"}
  /\ workout' = NoWorkout
  /\ exercises' = <<>>
  /\ loading' = FALSE
  /\ error' = "Failed to start workout"
  /\ result' = Result("startWorkout", FALSE, "Failed to start workout")
  /\ reqs' = Drop(r)
  /\ UNCHANGED <<user, template, authVars, dbVars>>

\* ... with a compensating write that closes the workout row
StartFailCompensates(r) ==
  /\ r.op = "start" /\ r.stage \in {"sent", "sent2"}
  /\ dbWorkouts' = IF r.stage = "sent2"
                   THEN [dbWorkouts EXCEPT ![r.b].status = "abandoned"]
                   ELSE dbWorkouts
  /\ loading' = FALSE
  /\ error' = "Failed to start workout"
  /\ result' = Result("startWorkout", FALSE, "Failed to start workout")
  /\ reqs' = Drop(r)
  /\ UNCHANGED <<user, template, authVars, dbExercises, dbSets, workout, exercises>>

\* either insert fails: the catch block
StartFail(r) ==
  /\ r.op = "start" /\ r.stage \in {"sent", "sent2"}
  /\ loading' = FALSE
  /\ error' = "Failed to start workout"
  /\ result' = Result("startWorkout", FALSE, "Failed to start workout")
  /\ reqs' = Drop(r)
  /\ UNCHANGED <<user, template, authVars, dbVars, workout, exercises>>

\* ------------------------------------------------------------- logSet
NewSet(r) ==
  [id |-> r.b, workout_exercise_id |-> r.a, set_number |-> r.data.set_number,
   weight_kg |-> r.data.weight_kg, reps |-> r.data.reps,
   is_warmup |-> r.data.is_warmup]

\* ... without the guard
LogSetCallUnguarded(weId, data, cont) ==
  /\ reqs' = Send([Req("logSet", weId, 0, data) EXCEPT !.cont = cont])
  /\ NoReturn
  /\ UNCHANGED <<user, template, authVars, dbVars, stateVars>>

LogSetCall(weId, data, cont) ==
  /\ IF workout = NoWorkout
     THEN /\ result' = Result("logSet", FALSE, "No active workout")
          /\ UNCHANGED reqs
     ELSE /\ reqs' = Send([Req("logSet", weId, 0, data) EXCEPT !.cont = cont])
          /\ NoReturn
  /\ UNCHANGED <<user, template, authVars, dbVars, stateVars>>

LogSetInsert(r) ==
  /\ r.op = "logSet" /\ r.stage = "sent"
  /\ dbSets' = Append(dbSets,
       [workout_exercise_id |-> r.a, set_number |-> r.data.set_number,
        weight_kg |-> r.data.weight_kg, reps |-> r.data.reps,
        is_warmup |-> r.data.is_warmup, deleted |-> FALSE])
  /\ reqs' = Replace(r, [r EXCEPT !.stage = "ok", !.b = Len(dbSets) + 1])
  /\ UNCHANGED <<user, template, authVars, dbWorkouts, dbExercises, stateVars>>
  /\ NoReturn

LogSetRespOk(r) ==
  /\ r.op = "logSet" /\ r.stage = "ok"
  /\ exercises' = AppendSet(exercises, r.a, NewSet(r))
  /\ result' = Result("logSet", TRUE, NoError)
  /\ reqs' = Drop(r)
  /\ UNCHANGED <<user, template, authVars, dbVars, workout, loading, error>>

LogSetFail(r) ==
  /\ r.op = "logSet" /\ r.stage = "sent"
  /\ result' = Result("logSet", FALSE, "Failed to log set")
  /\ reqs' = Drop(r)
  /\ UNCHANGED <<user, template, authVars, dbVars, stateVars>>

\* ------------------------------------------------------------- updateSet
UpdatedSet(r) ==
  [id |-> r.a, workout_exercise_id |-> r.b, set_number |-> r.data.set_number,
   weight_kg |-> r.data.weight_kg, reps |-> r.data.reps,
   is_warmup |-> r.data.is_warmup]

UpdateSetCall(setId, updates) ==
  /\ reqs' = Send(Req("updateSet", setId, 0, updates))
  /\ UNCHANGED <<user, template, authVars, dbVars, stateVars>>
  /\ NoReturn

\* update ... eq(id).select().single(): an error when no row matches
UpdateSetExec(r) ==
  /\ r.op = "updateSet" /\ r.stage = "sent"
  /\ r.a \in LiveSetIds
  /\ dbSets' = [dbSets EXCEPT ![r.a].weight_kg = r.data.weight_kg,
                              ![r.a].reps = r.data.reps]
  /\ reqs' = Replace(r, [r EXCEPT !.stage = "ok",
       !.b = dbSets[r.a].workout_exercise_id,
       !.data = [set_number |-> dbSets[r.a].set_number,
                 weight_kg |-> r.data.weight_kg, reps |-> r.data.reps,
                 is_warmup |-> dbSets[r.a].is_warmup]])
  /\ UNCHANGED <<user, template, authVars, dbWorkouts, dbExercises, stateVars>>
  /\ NoReturn

UpdateSetRespOk(r) ==
  /\ r.op = "updateSet" /\ r.stage = "ok"
  /\ exercises' = ReplaceSet(exercises, r.a, UpdatedSet(r))
  /\ result' = Result("updateSet", TRUE, NoError)
  /\ reqs' = Drop(r)
  /\ UNCHANGED <<user, template, authVars, dbVars, workout, loading, error>>

UpdateSetFail(r) ==
  /\ r.op = "updateSet" /\ r.stage = "sent"
  /\ result' = Result("updateSet", FALSE, "Failed to update set")
  /\ reqs' = Drop(r)
  /\ UNCHANGED <<user, template, authVars, dbVars, stateVars>>

\* ------------------------------------------------------------- deleteSet
DeleteSetCall(setId, weId, cont) ==
  /\ reqs' = Send([Req("deleteSet", setId, weId, NoData) EXCEPT !.cont = cont])
  /\ UNCHANGED <<user, template, authVars, dbVars, stateVars>>
  /\ NoReturn

\* delete ... eq(id): no error when no row matches
DeleteSetExec(r) ==
  /\ r.op = "deleteSet" /\ r.stage = "sent"
  /\ dbSets' = IF r.a \in DOMAIN dbSets THEN [dbSets EXCEPT ![r.a] = Tombstone] ELSE dbSets
  /\ reqs' = Replace(r, [r EXCEPT !.stage = "ok"])
  /\ UNCHANGED <<user, template, authVars, dbWorkouts, dbExercises, stateVars>>
  /\ NoReturn

DeleteSetRespOk(r) ==
  /\ r.op = "deleteSet" /\ r.stage = "ok"
  /\ exercises' = RemoveSet(exercises, r.a, r.b)
  /\ result' = Result("deleteSet", TRUE, NoError)
  /\ reqs' = Drop(r)
  /\ UNCHANGED <<user, template, authVars, dbVars, workout, loading, error>>

DeleteSetFail(r) ==
  /\ r.op = "deleteSet" /\ r.stage = "sent"
  /\ result' = Result("deleteSet", FALSE, "Failed to delete set")
  /\ reqs' = Drop(r)
  /\ UNCHANGED <<user, template, authVars, dbVars, stateVars>>

\* ------------------------------------------------------------- swapExercise
SwapCall(weId, newExerciseId) ==
  /\ reqs' = Send(Req("swap", weId, newExerciseId, NoData))
  /\ UNCHANGED <<user, template, authVars, dbVars, stateVars>>
  /\ NoReturn

SwapExec(r) ==
  /\ r.op = "swap" /\ r.stage = "sent"
  /\ r.a \in DOMAIN dbExercises
  /\ dbExercises' = [dbExercises EXCEPT ![r.a].exercise_id = r.b,
                                        ![r.a].is_substitution = TRUE]
  /\ reqs' = Replace(r, [r EXCEPT !.stage = "ok",
       !.rows = << LocalExercise(
          [ExerciseRow(r.a) EXCEPT !.exercise_id = r.b, !.is_substitution = TRUE],
          Undef, Undef, Undef, <<>>) >>])
  /\ UNCHANGED <<user, template, authVars, dbWorkouts, dbSets, stateVars>>
  /\ NoReturn

SwapRespOk(r) ==
  /\ r.op = "swap" /\ r.stage = "ok"
  /\ exercises' = ReplaceExercise(exercises, r.a, r.rows[1])
  /\ result' = Result("swapExercise", TRUE, NoError)
  /\ reqs' = Drop(r)
  /\ UNCHANGED <<user, template, authVars, dbVars, workout, loading, error>>

SwapFail(r) ==
  /\ r.op = "swap" /\ r.stage = "sent"
  /\ result' = Result("swapExercise", FALSE, "Failed to swap exercise")
  /\ reqs' = Drop(r)
  /\ UNCHANGED <<user, template, authVars, dbVars, stateVars>>

\* ------------------------------------------------------------- completeWorkout, abandonWorkout
\* op is "complete" or "abandon"; completed_at is the time of the call
CloseName(op) == IF op = "complete" THEN "completeWorkout" ELSE "abandonWorkout"
CloseStatus(op) == IF op = "complete" THEN "completed" ELSE "abandoned"
CloseMessage(op) ==
  IF op = "complete" THEN "Failed to complete workout" ELSE "Failed to abandon workout"

\* ... keeping the exercises
ClearedStateKeepsExercises ==
  [workout |-> NoWorkout, exercises |-> exercises, loading |-> FALSE, error |-> NoError]

\* the state both set after a successful update
ClearedState ==
  [workout |-> NoWorkout, exercises |-> <<>>, loading |-> FALSE, error |-> NoError]

\* new Date(): later than every time stamp written or on its way
Now ==
  LET seen == {dbWorkouts[i].completed_at : i \in DOMAIN dbWorkouts}
              \cup {r.b : r \in {q \in InFlight : q.op \in {"complete", "abandon"}}}
              \cup {0}
  IN  1 + CHOOSE m \in seen : \A k \in seen : k <= m

CloseCall(op) ==
  /\ IF workout = NoWorkout
     THEN /\ result' = Result(CloseName(op), FALSE, "No active workout")
          /\ UNCHANGED <<reqs>>
     ELSE /\ reqs' = Send(Req(op, workout, Now, NoData))
          /\ NoReturn
  /\ UNCHANGED <<user, template, authVars, dbVars, stateVars>>

CloseExec(r) ==
  /\ r.op \in {"complete", "abandon"} /\ r.stage = "sent"
  /\ r.a \in DOMAIN dbWorkouts
  /\ dbWorkouts' = [dbWorkouts EXCEPT ![r.a].status = CloseStatus(r.op),
                                      ![r.a].completed_at = r.b]
  /\ reqs' = Replace(r, [r EXCEPT !.stage = "ok"])
  /\ UNCHANGED <<user, template, authVars, dbExercises, dbSets, stateVars>>
  /\ NoReturn

CloseRespOk(r) ==
  /\ r.op \in {"complete", "abandon"} /\ r.stage = "ok"
  /\ workout' = ClearedState.workout
  /\ exercises' = ClearedState.exercises
  /\ loading' = ClearedState.loading
  /\ error' = ClearedState.error
  /\ result' = Result(CloseName(r.op), TRUE, NoError)
  /\ reqs' = Drop(r)
  /\ UNCHANGED <<user, template, authVars, dbVars>>

CloseFail(r) ==
  /\ r.op \in {"complete", "abandon"} /\ r.stage = "sent"
  /\ result' = Result(CloseName(r.op), FALSE, CloseMessage(r.op))
  /\ reqs' = Drop(r)
  /\ UNCHANGED <<user, template, authVars, dbVars, stateVars>>

CompleteCall == CloseCall("complete")
AbandonCall == CloseCall("abandon")

\* ------------------------------------------------------------- resumeWorkout
\* ActiveWorkoutScreen calls it on mount when the view-model holds no workout
ResumeCall(workoutId) ==
  /\ workout = NoWorkout
  /\ loading' = TRUE
  /\ error' = NoError
  /\ reqs' = Send(Req("resume", workoutId, 0, NoData))
  /\ UNCHANGED <<user, template, authVars, dbVars, workout, exercises>>
  /\ NoReturn

\* select ... eq(id).single(): an error when the workout does not exist
ResumeFetchWorkout(r) ==
  /\ r.op = "resume" /\ r.stage = "sent"
  /\ r.a \in DOMAIN dbWorkouts
  /\ reqs' = Replace(r, [r EXCEPT !.stage = "sent2"])
  /\ UNCHANGED <<user, template, authVars, dbVars, stateVars>>
  /\ NoReturn

\* the rows of workout w ordered by order_index, each with its sets embedded;
\* the embedded sets carry no order clause: they come in the order p the
\* backend happens to produce
ExercisesOf(w, p) ==
  LET ids == {i \in DOMAIN dbExercises : dbExercises[i].workout_id = w}
      byId == SortSeq(CHOOSE q \in Orderings(ids) : TRUE, LAMBDA a, b : a < b)
      list == MapSeq(byId, LAMBDA i :
                LocalExercise(ExerciseRow(i), Undef, Undef, Undef,
                  MapSeq(SelectSeq(p, LAMBDA k : dbSets[k].workout_exercise_id = i),
                         LAMBDA k : SetRow(k))))
  IN  SortSeq(list, LAMBDA a, b : a.order_index < b.order_index)

ResumeFetchExercises(r) ==
  /\ r.op = "resume" /\ r.stage = "sent2"
  /\ \E p \in Orderings(LiveSetIds) :
       reqs' = Replace(r, [r EXCEPT !.stage = "ok", !.rows = ExercisesOf(r.a, p)])
  /\ UNCHANGED <<user, template, authVars, dbVars, stateVars>>
  /\ NoReturn

ResumeRespOk(r) ==
  /\ r.op = "resume" /\ r.stage = "ok"
  /\ workout' = r.a
  /\ exercises' = r.rows
  /\ loading' = FALSE
  /\ error' = NoError
  /\ result' = Result("resumeWorkout", TRUE, NoError)
  /\ reqs' = Drop(r)
  /\ UNCHANGED <<user, template, authVars, dbVars>>

ResumeFail(r) ==
  /\ r.op = "resume" /\ r.stage \in {"sent", "sent2"}
  /\ loading' = FALSE
  /\ error' = "Failed to resume workout"
  /\ result' = Result("resumeWorkout", FALSE, "Failed to resume workout")
  /\ reqs' = Drop(r)
  /\ UNCHANGED <<user, template, authVars, dbVars, workout, exercises>>

\* the slots a caller can name: the set-input card shows a slot of
\* state.exercises
CallerSlots == IF exercises = <<>> THEN {1} ELSE SlotIds

\* the app is closed and opened again: the view-model is constructed anew
\* and the responses on their way are never handled
AppRestart ==
  /\ workout' = NoWorkout
  /\ exercises' = <<>>
  /\ loading' = FALSE
  /\ error' = NoError
  /\ reqs' = EmptyBag
  /\ NoReturn
  /\ UNCHANGED <<user, template, authVars, dbVars>>

\* ------------------------------------------------------------- getWorkoutStats
\* ... counting the warm-up sets as well
getWorkoutStatsAllSets(exs) ==
  LET volume(ex) == SumSeq(MapSeq(ex.sets, LAMBDA s :
                      IF s.weight_kg # Null /\ s.weight_kg # 0 /\ s.reps # Null /\ s.reps # 0
                      THEN s.weight_kg * s.reps ELSE 0))
  IN  [totalSets |-> SumSeq(MapSeq(exs, LAMBDA ex : Len(ex.sets))),
       totalVolume |-> (2 * SumSeq(MapSeq(exs, LAMBDA ex : volume(ex))) + WeightScale)
                         \div (2 * WeightScale),
       exerciseCount |-> Len(exs),
       completedExercises |-> Len(SelectSeq(exs, LAMBDA ex : Len(ex.sets) > 0))]

\* a number that is neither null nor 0
Truthy(x) == x # Null /\ x # Undef /\ x # 0

\* Math.round(n / WeightScale): the nearest whole number, a half goes up
MathRound(n) == (2 * n + WeightScale) \div (2 * WeightScale)

getWorkoutStats(exs) ==
  LET working(ex) == SelectSeq(ex.sets, LAMBDA s : ~s.is_warmup)
      volume(ex) == SumSeq(MapSeq(ex.sets, LAMBDA s :
                      IF ~s.is_warmup /\ Truthy(s.weight_kg) /\ Truthy(s.reps)
                      THEN s.weight_kg * s.reps ELSE 0))
  IN  [totalSets |-> SumSeq(MapSeq(exs, LAMBDA ex : Len(working(ex)))),
       totalVolume |-> MathRound(SumSeq(MapSeq(exs, LAMBDA ex : volume(ex)))),
       exerciseCount |-> Len(exs),
       completedExercises |-> Len(SelectSeq(exs, LAMBDA ex : Len(working(ex)) > 0))]

\* nothing returned yet
NoPrevious == <<[exercise_id |-> 0, set_number |-> 0, weight_kg |-> Null, reps |-> Null]>>
NoStats == [totalSets |-> Null, totalVolume |-> Null, exerciseCount |-> Null,
            completedExercises |-> Null]

\* a caller reads the stats (ActiveWorkoutScreen does on every render)
GetWorkoutStats ==
  /\ stats' = getWorkoutStats(exercises)
  /\ UNCHANGED <<vmVars, cardVars, screenVars, previous>>

\* ------------------------------------------------------------- getPreviousSets
\* the non-warmup sets, by set_number, of the user's latest completed workout
\* that has the exercise; [] when there is none
getPreviousSets(exerciseId) ==
  LET done == {w \in DOMAIN dbWorkouts :
                 /\ dbWorkouts[w].status = "completed"
                 /\ \E e \in DOMAIN dbExercises :
                      /\ dbExercises[e].workout_id = w
                      /\ dbExercises[e].exercise_id = exerciseId}
  IN  IF user = NoUser \/ done = {} THEN <<>>
      ELSE
        LET recent == CHOOSE w \in done :
                        \A v \in done : dbWorkouts[v].completed_at <= dbWorkouts[w].completed_at
            wes == {e \in DOMAIN dbExercises :
                      /\ dbExercises[e].workout_id = recent
                      /\ dbExercises[e].exercise_id = exerciseId}
            we == CHOOSE e \in wes : \A f \in wes : e <= f
            ids == {k \in SetIdsOf(we) : ~dbSets[k].is_warmup}
            byId == SortSeq(CHOOSE q \in Orderings(ids) : TRUE, LAMBDA a, b : a < b)
            sets == SortSeq(byId, LAMBDA a, b : dbSets[a].set_number < dbSets[b].set_number)
        IN  MapSeq(SelectSeq(sets, LAMBDA k : Truthy(dbSets[k].weight_kg) /\ Truthy(dbSets[k].reps)),
                   LAMBDA k : [exercise_id |-> exerciseId,
                               set_number |-> dbSets[k].set_number,
                               weight_kg |-> dbSets[k].weight_kg,
                               reps |-> dbSets[k].reps])

\* the same, as the calls a caller awaits.  An unauthenticated caller gets []
\* at once.
PrevCall(exerciseId) ==
  /\ IF user = NoUser
     THEN /\ previous' = <<>>
          /\ UNCHANGED reqs
     ELSE /\ reqs' = Send(Req("previous", exerciseId, 0, NoData))
          /\ UNCHANGED previous
  /\ NoReturn
  /\ UNCHANGED <<user, template, authVars, dbVars, stateVars>>

\* the completed workouts that have the exercise
CompletedWith(exerciseId) ==
  {w \in DOMAIN dbWorkouts :
     /\ dbWorkouts[w].status = "completed"
     /\ \E e \in DOMAIN dbExercises :
          /\ dbExercises[e].workout_id = w
          /\ dbExercises[e].exercise_id = exerciseId}

\* step 1: order(completed_at desc).limit(1).single() and the find on the
\* embedded workout_exercises, which carry no order clause; an error when
\* there is no row
PrevFindWorkout(r) ==
  /\ r.op = "previous" /\ r.stage = "sent"
  /\ \E recent \in CompletedWith(r.a) :
       /\ \A v \in CompletedWith(r.a) :
            dbWorkouts[v].completed_at <= dbWorkouts[recent].completed_at
       /\ \E we \in DOMAIN dbExercises :
            /\ dbExercises[we].workout_id = recent
            /\ dbExercises[we].exercise_id = r.a
            /\ reqs' = Replace(r, [r EXCEPT !.stage = "sent2", !.b = we])
  /\ NoReturn
  /\ UNCHANGED <<user, template, authVars, dbVars, stateVars, previous>>

\* step 3: the sets of the workout_exercise found, is_warmup = false, by
\* set_number; then the filter and the map
PrevFetchSets(r) ==
  /\ r.op = "previous" /\ r.stage = "sent2"
  /\ LET ids == {k \in SetIdsOf(r.b) : ~dbSets[k].is_warmup}
         byId == SortSeq(CHOOSE q \in Orderings(ids) : TRUE, LAMBDA a, b : a < b)
         sets == SortSeq(byId, LAMBDA a, b : dbSets[a].set_number < dbSets[b].set_number)
     IN  reqs' = Replace(r, [r EXCEPT !.stage = "ok", !.rows =
           MapSeq(SelectSeq(sets, LAMBDA k : Truthy(dbSets[k].weight_kg) /\ Truthy(dbSets[k].reps)),
                  LAMBDA k : [exercise_id |-> r.a,
                              set_number |-> dbSets[k].set_number,
                              weight_kg |-> dbSets[k].weight_kg,
                              reps |-> dbSets[k].reps])])
  /\ NoReturn
  /\ UNCHANGED <<user, template, authVars, dbVars, stateVars, previous>>

PrevReturn(r) ==
  /\ r.op = "previous" /\ r.stage = "ok"
  /\ previous' = r.rows
  /\ reqs' = Drop(r)
  /\ NoReturn
  /\ UNCHANGED <<user, template, authVars, dbVars, stateVars>>

\* step 1 ends with an error, or step 3 does and the catch block returns []
PrevFail(r) ==
  /\ r.op = "previous" /\ r.stage \in {"sent", "sent2"}
  /\ previous' = <<>>
  /\ reqs' = Drop(r)
  /\ NoReturn
  /\ UNCHANGED <<user, template, authVars, dbVars, stateVars>>

\* ------------------------------------------------------------- RestTimer
\* ... with [duration] alone
ResetEffectOnDuration ==
  IF showRestTimer' /\ restDuration' # restDuration
  THEN /\ remainingSeconds' = restDuration'
       /\ isPaused' = FALSE
  ELSE UNCHANGED <<remainingSeconds, isPaused>>

\* the effect with [visible, duration]: when one of them has changed and
\* the timer is visible, the countdown starts anew
ResetEffect ==
  IF showRestTimer' /\ (showRestTimer' # showRestTimer \/ restDuration' # restDuration)
  THEN /\ remainingSeconds' = restDuration'
       /\ isPaused' = FALSE
  ELSE UNCHANGED <<remainingSeconds, isPaused>>

\* ActiveWorkoutScreen: the card's onSetComplete
handleSetComplete(restSeconds) ==
  /\ restDuration' = restSeconds
  /\ showRestTimer' = TRUE
  /\ ResetEffect
  /\ vibrated' = FALSE
  /\ UNCHANGED finishVars

\* ... with an interval that a pause does not clear
TickWhilePaused ==
  /\ showRestTimer
  /\ IF remainingSeconds <= 1
     THEN /\ vibrated' = TRUE
          /\ showRestTimer' = FALSE
          /\ remainingSeconds' = 0
     ELSE /\ remainingSeconds' = remainingSeconds - 1
          /\ UNCHANGED <<showRestTimer, vibrated>>
  /\ UNCHANGED <<restDuration, isPaused, finishVars>>

\* the interval's callback, installed while the timer is visible and not
\* paused: at one second or less it calls onClose and leaves 0
Tick ==
  /\ showRestTimer /\ ~isPaused
  /\ IF remainingSeconds <= 1
     THEN /\ vibrated' = TRUE
          /\ showRestTimer' = FALSE
          /\ remainingSeconds' = 0
     ELSE /\ remainingSeconds' = remainingSeconds - 1
          /\ UNCHANGED <<showRestTimer, vibrated>>
  /\ UNCHANGED <<restDuration, isPaused, finishVars>>

\* the pause button of the modal
TogglePause ==
  /\ showRestTimer
  /\ isPaused' = ~isPaused
  /\ UNCHANGED <<showRestTimer, restDuration, remainingSeconds, vibrated, finishVars>>

\* ... without Math.max
adjustTimeUnclamped(delta) ==
  /\ showRestTimer
  /\ remainingSeconds' = remainingSeconds + delta
  /\ UNCHANGED <<showRestTimer, restDuration, isPaused, vibrated, finishVars>>

\* the -15s and +15s buttons
adjustTime(delta) ==
  /\ showRestTimer
  /\ remainingSeconds' = Max(0, remainingSeconds + delta)
  /\ UNCHANGED <<showRestTimer, restDuration, isPaused, vibrated, finishVars>>

\* the close button, Skip Rest and the modal's onRequestClose
onSkip ==
  /\ showRestTimer
  /\ showRestTimer' = FALSE
  /\ UNCHANGED <<restDuration, remainingSeconds, isPaused, vibrated, finishVars>>

\* ------------------------------------------------------------- SetInputCard
\* ActiveWorkoutScreen: currentExerciseIndex (the first exercise)
CurrentIndex == 1
\* it renders the card when the view-model holds a workout with exercises
CardShown(w, exs) == w # NoWorkout /\ exs # <<>>

NoKey == <<0, 0>>
KeyOf(ex) == <<ex.id, ex.exercise_id>>
NoExercise ==
  LocalExercise([id |-> 0, workout_id |-> 0, exercise_id |-> 0, order_index |-> 0,
                 template_exercise_id |-> 0, is_substitution |-> FALSE],
                Undef, Undef, Undef, <<>>)

\* x ?? d
OrElse(x, d) == IF x = Null \/ x = Undef THEN d ELSE x

\* a row of the card; weight and reps are the numbers their text reads as,
\* Null for the empty text; setId 0 is undefined
Row(n, weight, reps, done, setId) ==
  [setNumber |-> n, weight |-> weight, reps |-> reps, isCompleted |-> done,
   setId |-> setId]

\* loadData: the rows for the captured workoutExercise and the previous sets
InitialRows(we, prevSets) ==
  LET targetSets == OrElse(we.targetSets, 3)
      workingSets == SelectSeq(we.sets, LAMBDA s : ~s.is_warmup)
  IN  [i \in 1..Max(targetSets, Len(workingSets)) |->
        LET e == FindIndex(workingSets, LAMBDA s : s.set_number = i)
            p == FindIndex(prevSets, LAMBDA q : q.set_number = i)
        IN  IF e # 0
            THEN Row(i, workingSets[e].weight_kg, workingSets[e].reps, TRUE,
                     workingSets[e].id)
            ELSE Row(i,
                     IF p # 0 THEN prevSets[p].weight_kg ELSE Null,
                     IF p # 0 THEN prevSets[p].reps ELSE OrElse(we.targetReps, Null),
                     FALSE, 0)]

\* the effect with [workoutExercise.id, workoutExercise.exercise_id]: after a
\* step that changes the view-model's state the card is rendered anew; a new
\* key starts loadData, which captures the workoutExercise it is given
CardRender ==
  IF CardShown(workout', exercises')
  THEN IF KeyOf(exercises'[CurrentIndex]) # cardKey
       THEN /\ cardKey' = KeyOf(exercises'[CurrentIndex])
            /\ cardProps' = exercises'[CurrentIndex]
            /\ cardLoading' = TRUE
            /\ UNCHANGED <<rows, previousSets, savingSet>>
       ELSE UNCHANGED cardVars
  ELSE \* the card is not rendered: its state is gone
       /\ cardKey' = NoKey
       /\ cardProps' = NoExercise
       /\ cardLoading' = TRUE
       /\ rows' = <<>>
       /\ previousSets' = <<>>
       /\ savingSet' = 0

\* loadData after getPreviousSets has returned (a failed request gives [])
LoadData ==
  /\ cardKey # NoKey /\ cardLoading
  /\ \E prevSets \in {getPreviousSets(cardProps.exercise_id), <<>>} :
       /\ previousSets' = prevSets
       /\ rows' = InitialRows(cardProps, prevSets)
  /\ cardLoading' = FALSE
  /\ cardProps' = NoExercise
  /\ UNCHANGED <<cardKey, savingSet>>
  /\ NoReturn
  /\ UNCHANGED <<user, template, authVars, dbVars, stateVars, reqs, screenVars, stats, previous>>

\* the card answers the user once it has loaded
CardReady == cardKey # NoKey /\ ~cardLoading
WorkoutExercise == exercises[CurrentIndex]

addSet ==
  /\ CardReady
  /\ LET nextSetNumber == Len(rows) + 1
         p == FindIndex(previousSets, LAMBDA q : q.set_number = nextSetNumber)
         k == IF p # 0 THEN p ELSE Len(previousSets)
     IN  rows' = Append(rows,
           Row(nextSetNumber,
               IF k # 0 THEN previousSets[k].weight_kg
               ELSE IF rows # <<>> THEN rows[Len(rows)].weight ELSE Null,
               IF k # 0 THEN previousSets[k].reps
               ELSE OrElse(WorkoutExercise.targetReps, Null),
               FALSE, 0))
  /\ NoReturn
  /\ UNCHANGED <<user, template, authVars, dbVars, stateVars, reqs, screenVars, stats, previous>>
  /\ UNCHANGED <<cardKey, cardProps, cardLoading, previousSets, savingSet>>

\* updateSetValue: the text of a field is replaced
updateSetValue(index, field, value) ==
  /\ CardReady
  /\ index \in DOMAIN rows
  /\ rows' = [rows EXCEPT ![index] =
       IF field = "weight" THEN [@ EXCEPT !.weight = value] ELSE [@ EXCEPT !.reps = value]]
  /\ NoReturn
  /\ UNCHANGED <<user, template, authVars, dbVars, stateVars, reqs, screenVars, stats, previous>>
  /\ UNCHANGED <<cardKey, cardProps, cardLoading, previousSets, savingSet>>

\* the action button of row index: a spinner while savingSet is the row, the
\* delete button on a completed row, else the save button, disabled while a
\* field is empty
SaveOffered(index) ==
  /\ CardReady
  /\ index \in DOMAIN rows
  /\ savingSet # index
  /\ ~rows[index].isCompleted
  /\ rows[index].weight # Null /\ rows[index].reps # Null

DeleteOffered(index) ==
  /\ CardReady
  /\ index \in DOMAIN rows
  /\ savingSet # index
  /\ rows[index].isCompleted

\* handleSaveSet up to its await: the save button only shows on a row that is
\* not completed, so the call is logSet
handleSaveSet(index) ==
  /\ SaveOffered(index)
  /\ IF rows[index].weight <= 0 \/ rows[index].reps <= 0
     THEN /\ NoReturn
          /\ UNCHANGED <<reqs, savingSet>>
     ELSE /\ savingSet' = (IF workout = NoWorkout THEN 0 ELSE index)
          /\ LogSetCall(WorkoutExercise.id,
               [set_number |-> rows[index].setNumber, weight_kg |-> rows[index].weight,
                reps |-> rows[index].reps, is_warmup |-> FALSE],
               [row |-> index, rest |-> OrElse(WorkoutExercise.restSeconds, 90)])
  /\ UNCHANGED <<user, template, authVars, dbVars, stateVars>>
  /\ UNCHANGED <<cardKey, cardProps, cardLoading, rows, previousSets, screenVars, stats, previous>>

\* handleSaveSet after the await: logSet succeeded
SaveSetOk(r) ==
  /\ r.cont # NoCont
  /\ LogSetRespOk(r)
  /\ rows' = [i \in DOMAIN rows |->
       IF i = r.cont.row THEN [rows[i] EXCEPT !.isCompleted = TRUE, !.setId = r.b]
       ELSE rows[i]]
  /\ handleSetComplete(r.cont.rest)
  /\ savingSet' = 0
  /\ UNCHANGED <<cardKey, cardProps, cardLoading, previousSets, stats, previous>>

\* ... logSet failed
SaveSetFail(r) ==
  /\ r.cont # NoCont
  /\ LogSetFail(r)
  /\ savingSet' = 0
  /\ UNCHANGED <<cardKey, cardProps, cardLoading, rows, previousSets, screenVars, stats, previous>>

RemoveAt(s, index) == [i \in 1..(Len(s) - (IF index \in DOMAIN s THEN 1 ELSE 0)) |->
                        IF i < index THEN s[i] ELSE s[i + 1]]
\* the rows without row index, numbered anew
RemoveAndRenumber(rs, index) ==
  LET newSets == RemoveAt(rs, index)
  IN  [i \in DOMAIN newSets |-> [newSets[i] EXCEPT !.setNumber = i]]

\* handleDeleteSet up to its await
handleDeleteSet(index) ==
  /\ DeleteOffered(index)
  /\ IF rows[index].setId # 0
     THEN /\ DeleteSetCall(rows[index].setId, WorkoutExercise.id,
                           [row |-> index, rest |-> 0])
          /\ UNCHANGED rows
     ELSE /\ rows' = RemoveAndRenumber(rows, index)
          /\ NoReturn
          /\ UNCHANGED <<user, template, authVars, dbVars, stateVars, reqs>>
  /\ UNCHANGED <<cardKey, cardProps, cardLoading, previousSets, savingSet, screenVars, stats, previous>>

\* handleDeleteSet after the await: it does not read what deleteSet returned
DeleteSetDone(r) ==
  /\ r.cont # NoCont
  /\ DeleteSetRespOk(r) \/ DeleteSetFail(r)
  /\ rows' = RemoveAndRenumber(rows, r.cont.row)
  /\ UNCHANGED <<cardKey, cardProps, cardLoading, previousSets, savingSet, screenVars, stats, previous>>

\* ------------------------------------------------------------- finishing
\* ActiveWorkoutScreen renders its buttons and the finish modal when the
\* view-model holds a workout with exercises (CardShown)

\* ... opening the modal whatever the stats
handleFinishWorkoutUnchecked ==
  /\ CardShown(workout, exercises)
  /\ ~showFinishModal /\ ~finishAlert
  /\ showFinishModal' = TRUE /\ UNCHANGED finishAlert
  /\ NoReturn
  /\ UNCHANGED <<user, template, authVars, dbVars, stateVars, reqs, cardVars, stats, previous>>
  /\ UNCHANGED <<showRestTimer, restDuration, remainingSeconds, isPaused, vibrated>>

\* the Finish button; the alert and the modal cover it
handleFinishWorkout ==
  /\ CardShown(workout, exercises)
  /\ ~showFinishModal /\ ~finishAlert
  /\ IF getWorkoutStats(exercises).totalSets = 0
     THEN finishAlert' = TRUE /\ UNCHANGED showFinishModal
     ELSE showFinishModal' = TRUE /\ UNCHANGED finishAlert
  /\ NoReturn
  /\ UNCHANGED <<user, template, authVars, dbVars, stateVars, reqs, cardVars, stats, previous>>
  /\ UNCHANGED <<showRestTimer, restDuration, remainingSeconds, isPaused, vibrated>>

\* Keep Going, of the alert and of the modal, and the modal's onRequestClose
KeepGoing ==
  /\ showFinishModal \/ finishAlert
  /\ showFinishModal' = FALSE
  /\ finishAlert' = FALSE
  /\ NoReturn
  /\ UNCHANGED <<user, template, authVars, dbVars, stateVars, reqs, cardVars, stats, previous>>
  /\ UNCHANGED <<showRestTimer, restDuration, remainingSeconds, isPaused, vibrated>>

\* the alert's Abandon, which closes the alert
AbandonPress ==
  /\ finishAlert
  /\ AbandonCall
  /\ finishAlert' = FALSE
  /\ UNCHANGED <<showFinishModal, cardVars, stats, previous>>
  /\ UNCHANGED <<showRestTimer, restDuration, remainingSeconds, isPaused, vibrated>>

\* the modal's Finish, up to its await
confirmFinishWorkout ==
  /\ CardShown(workout, exercises)
  /\ showFinishModal
  /\ CompleteCall
  /\ UNCHANGED <<showFinishModal, finishAlert, cardVars, stats, previous>>
  /\ UNCHANGED <<showRestTimer, restDuration, remainingSeconds, isPaused, vibrated>>

\* after the await of completeWorkout the modal is closed; after that of
\* abandonWorkout the screen is left
FinishDone(r) ==
  /\ CloseRespOk(r) \/ CloseFail(r)
  /\ showFinishModal' = FALSE
  /\ UNCHANGED <<finishAlert, cardVars, stats, previous>>
  /\ UNCHANGED <<showRestTimer, restDuration, remainingSeconds, isPaused, vibrated>>

\* WorkoutSummaryScreen.fetchWorkoutStats: the totals of the workout's sets in
\* the backend
fetchWorkoutStats(workoutId) ==
  LET exs == ExercisesOf(workoutId, CHOOSE p \in Orderings(LiveSetIds) : TRUE)
      workingSets(we) == SelectSeq(we.sets, LAMBDA s : ~s.is_warmup)
      volume(we) == SumSeq(MapSeq(workingSets(we), LAMBDA s :
                      OrElse(s.weight_kg, 0) * OrElse(s.reps, 0)))
  IN  [totalSets |-> SumSeq(MapSeq(exs, LAMBDA we : Len(workingSets(we)))),
       totalVolume |-> MathRound(SumSeq(MapSeq(exs, LAMBDA we : volume(we))))]

\* ------------------------------------------------------------- useAuth
\* a session is modelled by the id of its user, a profile by its id
NoSession == 0
NoProfile == 0

\* the app as it opens: useAuth's state after construction, with the effect's
\* getSession() on its way; the client may hold a session kept from an earlier
\* run
InitAuth ==
  /\ auth = [session |-> NoSession, user |-> NoUser, profile |-> NoProfile,
             loading |-> TRUE, error |-> NoError]
  /\ authOps = SetToBag({[op |-> "getSession", uid |-> NoUser]})
  /\ sb \in {[session |-> s, events |-> <<>>] : s \in 0..AuthUsers}
  /\ user = NoUser
  \* no session of the view-model
  /\ template = 1
  /\ dbWorkouts = <<>> /\ dbExercises = <<>> /\ dbSets = <<>>
  /\ workout = NoWorkout /\ exercises = <<>> /\ loading = FALSE /\ error = NoError
  /\ reqs = EmptyBag /\ result = NoResult /\ stats = NoStats /\ previous = NoPrevious
  /\ cardKey = NoKey /\ cardProps = NoExercise /\ cardLoading = TRUE /\ rows = <<>>
  /\ previousSets = <<>> /\ savingSet = 0
  /\ showRestTimer = FALSE /\ restDuration = 90 /\ remainingSeconds = 90
  /\ isPaused = FALSE /\ vibrated = FALSE
  /\ showFinishModal = FALSE /\ finishAlert = FALSE

\* a step of useAuth: the context hands on state.user, the rest of the app
\* stays as it is
AuthStep ==
  /\ user' = auth'.user
  /\ NoReturn
  /\ UNCHANGED <<template, dbVars, stateVars, reqs, outside>>

\* fetchProfile up to its await: the calls on their way after it is called
fetchProfile(ops, userId) == ops (+) SetToBag({[op |-> "fetchProfile", uid |-> userId]})

\* the effect: getSession().then(...)
GetSessionDone(r) ==
  /\ r.op = "getSession"
  /\ auth' = [auth EXCEPT !.session = sb.session, !.user = sb.session, !.loading = FALSE]
  /\ authOps' = IF sb.session # NoSession
                THEN fetchProfile(authOps (-) SetToBag({r}), sb.session)
                ELSE authOps (-) SetToBag({r})
  /\ UNCHANGED sb

\* the listener the effect subscribes: the oldest event not yet delivered
onAuthStateChange ==
  /\ sb.events # <<>>
  /\ LET session == Head(sb.events)
     IN  /\ auth' = [auth EXCEPT !.session = session, !.user = session,
                                 !.profile = IF session # NoSession THEN @ ELSE NoProfile]
         /\ authOps' = IF session # NoSession THEN fetchProfile(authOps, session)
                       ELSE authOps
  /\ sb' = [sb EXCEPT !.events = Tail(@)]

\* fetchProfile after its await: the row of profiles, or an error, which is
\* logged only
FetchProfileDone(r) ==
  /\ r.op = "fetchProfile"
  /\ \/ auth' = [auth EXCEPT !.profile = r.uid]
     \/ UNCHANGED auth
  /\ authOps' = authOps (-) SetToBag({r})
  /\ UNCHANGED sb

signIn(uid) ==
  /\ auth' = [auth EXCEPT !.loading = TRUE, !.error = NoError]
  /\ authOps' = authOps (+) SetToBag({[op |-> "signIn", uid |-> uid]})
  /\ UNCHANGED sb

\* signIn after its await: signInWithPassword gave an error, or it set the
\* client's session, of which the listener is told
SignInDone(r) ==
  /\ r.op = "signIn"
  /\ \/ /\ auth' = [auth EXCEPT !.loading = FALSE, !.error = "Invalid login credentials"]
        /\ UNCHANGED sb
     \/ /\ auth' = [auth EXCEPT !.loading = FALSE]
        /\ Len(sb.events) < AuthEvents
        /\ sb' = [session |-> r.uid, events |-> Append(sb.events, r.uid)]
  /\ authOps' = authOps (-) SetToBag({r})

signOut ==
  /\ auth' = [auth EXCEPT !.loading = TRUE]
  /\ authOps' = authOps (+) SetToBag({[op |-> "signOut", uid |-> NoUser]})
  /\ UNCHANGED sb

\* signOut after its await: the client's session is removed, of which the
\* listener is told, and the state is cleared
SignOutDone(r) ==
  /\ r.op = "signOut"
  /\ Len(sb.events) < AuthEvents
  /\ sb' = [session |-> NoSession, events |-> Append(sb.events, NoSession)]
  /\ auth' = [auth EXCEPT !.session = NoSession, !.user = NoUser,
                          !.profile = NoProfile, !.loading = FALSE]
  /\ authOps' = authOps (-) SetToBag({r})

\* ------------------------------------------------------------- specification
InitCard ==
  /\ cardKey = NoKey
  /\ cardProps = NoExercise
  /\ cardLoading = TRUE
  /\ rows = <<>>
  /\ previousSets = <<>>
  /\ savingSet = 0
  /\ showRestTimer = FALSE
  /\ restDuration = 90
  /\ remainingSeconds = 90
  /\ isPaused = FALSE
  /\ vibrated = FALSE
  /\ showFinishModal = FALSE
  /\ finishAlert = FALSE

Init ==
  /\ user \in {NoUser, 1}
  /\ template \in TemplateIds
  \* useAuth has settled on the user
  /\ auth = [session |-> user, user |-> user, profile |-> user, loading |-> FALSE,
             error |-> NoError]
  /\ authOps = EmptyBag
  /\ sb = [session |-> user, events |-> <<>>]
  /\ dbWorkouts = <<>>
  /\ dbExercises = <<>>
  /\ dbSets = <<>>
  /\ workout = NoWorkout
  /\ exercises = <<>>
  /\ loading = FALSE
  /\ error = NoError
  /\ reqs = EmptyBag
  /\ result = NoResult
  /\ stats = NoStats
  /\ previous = NoPrevious
  /\ InitCard

\* The groups of actions, each under the bounds of the specification that
\* uses it.  The callers are any callers: the card is left out.
CanSend(maxReq) == BagCardinality(reqs) < maxReq

StartNext(maxReq, maxWorkouts) ==
  \/ CanSend(maxReq) /\ \E t \in TemplateIds : StartCall(t) /\ UNCHANGED outside
  \/ Len(dbWorkouts) < maxWorkouts
       /\ \E r \in InFlight : StartInsertWorkout(r) /\ UNCHANGED outside
  \/ \E r \in InFlight : StartInsertExercises(r) /\ UNCHANGED outside
  \/ \E r \in InFlight : StartRespOk(r) /\ UNCHANGED outside
  \/ \E r \in InFlight : StartFail(r) /\ UNCHANGED outside

ResumeNext(maxReq, maxWorkouts) ==
  \/ CanSend(maxReq) /\ \E w \in 1..maxWorkouts : ResumeCall(w) /\ UNCHANGED outside
  \/ \E r \in InFlight : ResumeFetchWorkout(r) /\ UNCHANGED outside
  \/ \E r \in InFlight : ResumeFetchExercises(r) /\ UNCHANGED outside
  \/ \E r \in InFlight : ResumeRespOk(r) /\ UNCHANGED outside
  \/ \E r \in InFlight : ResumeFail(r) /\ UNCHANGED outside
  \/ AppRestart /\ UNCHANGED outside

LogSetNext(maxReq, maxSets) ==
  \/ CanSend(maxReq) /\ \E weId \in CallerSlots, data \in SetInputs :
       LogSetCall(weId, data, NoCont) /\ UNCHANGED outside
  \/ Len(dbSets) < maxSets /\ \E r \in InFlight : LogSetInsert(r) /\ UNCHANGED outside
  \/ \E r \in InFlight : LogSetRespOk(r) /\ UNCHANGED outside
  \/ \E r \in InFlight : LogSetFail(r) /\ UNCHANGED outside

UpdateSetNext(maxReq) ==
  \/ CanSend(maxReq) /\ \E s \in LocalSets, u \in SetUpdates :
       UpdateSetCall(s.id, u) /\ UNCHANGED outside
  \/ \E r \in InFlight : UpdateSetExec(r) /\ UNCHANGED outside
  \/ \E r \in InFlight : UpdateSetRespOk(r) /\ UNCHANGED outside
  \/ \E r \in InFlight : UpdateSetFail(r) /\ UNCHANGED outside

DeleteSetNext(maxReq) ==
  \/ CanSend(maxReq) /\ \E s \in LocalSets :
       DeleteSetCall(s.id, s.workout_exercise_id, NoCont) /\ UNCHANGED outside
  \/ \E r \in InFlight : DeleteSetExec(r) /\ UNCHANGED outside
  \/ \E r \in InFlight : DeleteSetRespOk(r) /\ UNCHANGED outside
  \/ \E r \in InFlight : DeleteSetFail(r) /\ UNCHANGED outside

\* ExerciseSwapModal offers every exercise but the slot's current one
SwapNext(maxReq) ==
  \/ CanSend(maxReq) /\ \E weId \in SlotIds :
       \E e \in ExerciseIds \ {Slot(weId).exercise_id} : SwapCall(weId, e) /\ UNCHANGED outside
  \/ \E r \in InFlight : SwapExec(r) /\ UNCHANGED outside
  \/ \E r \in InFlight : SwapRespOk(r) /\ UNCHANGED outside
  \/ \E r \in InFlight : SwapFail(r) /\ UNCHANGED outside

CloseNext(maxReq, maxClock) ==
  \/ CanSend(maxReq) /\ Now <= maxClock /\ CompleteCall /\ UNCHANGED outside
  \/ CanSend(maxReq) /\ Now <= maxClock /\ AbandonCall /\ UNCHANGED outside
  \/ \E r \in InFlight : CloseExec(r) /\ UNCHANGED outside
  \/ \E r \in InFlight : CloseRespOk(r) /\ UNCHANGED outside
  \/ \E r \in InFlight : CloseFail(r) /\ UNCHANGED outside

\* every operation of the view-model, one request at a time
Next ==
  \/ StartNext(MaxReq, MaxWorkouts)
  \/ ResumeNext(MaxReq, MaxWorkouts)
  \/ LogSetNext(MaxReq, MaxSets)
  \/ UpdateSetNext(MaxReq)
  \/ DeleteSetNext(MaxReq)
  \/ SwapNext(MaxReq)
  \/ CloseNext(MaxReq, MaxClock)

Spec == Init /\ [][Next]_vars

\* startWorkout and logSet only
NextLog == StartNext(LogReq, LogWorkouts) \/ LogSetNext(LogReq, LogSets)
SpecLog == Init /\ [][NextLog]_vars

\* the life cycle of the workouts: no set is logged
NextLife ==
  \/ StartNext(LifeReq, LifeWorkouts)
  \/ ResumeNext(LifeReq, LifeWorkouts)
  \/ CloseNext(LifeReq, LifeClock)
SpecLife == Init /\ [][NextLife]_vars

\* one session, its sets and the swaps of its slots
NextSwap ==
  \/ StartNext(SwapReq, SwapWorkouts)
  \/ LogSetNext(SwapReq, SwapSets)
  \/ SwapNext(SwapReq)
SpecSwap == Init /\ [][NextSwap]_vars

\* one session and the set-input card of its first exercise: the card is the
\* caller of logSet and deleteSet
NextCard ==
  \/ CanSend(CardReq) /\ \E t \in TemplateIds :
       StartCall(t) /\ UNCHANGED outside
  \/ Len(dbWorkouts) < CardWorkouts
       /\ \E r \in InFlight : StartInsertWorkout(r) /\ UNCHANGED outside
  \/ \E r \in InFlight : StartInsertExercises(r) /\ UNCHANGED outside
  \/ \E r \in InFlight : StartRespOk(r) /\ CardRender /\ UNCHANGED <<screenVars, stats, previous>>
  \/ \E r \in InFlight : StartFail(r) /\ UNCHANGED outside
  \/ LoadData
  \/ Len(rows) < CardMaxRows /\ addSet
  \/ \E i \in DOMAIN rows, v \in {0, 3} : updateSetValue(i, "weight", v)
  \/ \E i \in DOMAIN rows : updateSetValue(i, "reps", 2)
  \/ CanSend(CardReq) /\ \E i \in DOMAIN rows : handleSaveSet(i)
  \/ Len(dbSets) < CardSets /\ \E r \in InFlight : LogSetInsert(r) /\ UNCHANGED outside
  \/ \E r \in InFlight : SaveSetOk(r)
  \/ \E r \in InFlight : SaveSetFail(r)
  \/ CanSend(CardReq) /\ \E i \in DOMAIN rows : handleDeleteSet(i)
  \/ \E r \in InFlight : DeleteSetExec(r) /\ UNCHANGED outside
  \/ \E r \in InFlight : DeleteSetDone(r)
SpecCard == Init /\ [][NextCard]_vars

\* one session and the card of its first exercise: its rows are filled in,
\* saved and deleted one call at a time, and the app is reopened and the
\* session resumed, after which the card loads anew
NextLoad ==
  \/ CanSend(CardReq) /\ \E t \in TemplateIds : StartCall(t) /\ UNCHANGED outside
  \/ Len(dbWorkouts) < CardWorkouts
       /\ \E r \in InFlight : StartInsertWorkout(r) /\ UNCHANGED outside
  \/ \E r \in InFlight : StartInsertExercises(r) /\ UNCHANGED outside
  \/ \E r \in InFlight : StartRespOk(r) /\ CardRender /\ UNCHANGED <<screenVars, stats, previous>>
  \/ \E r \in InFlight : StartFail(r) /\ UNCHANGED outside
  \/ LoadData
  \/ Len(rows) < CardMaxRows /\ addSet
  \/ \E i \in DOMAIN rows : rows[i].weight = Null /\ updateSetValue(i, "weight", 3)
  \/ \E i \in DOMAIN rows : rows[i].reps = Null /\ updateSetValue(i, "reps", 2)
  \/ CanSend(CardReq) /\ \E i \in DOMAIN rows : handleSaveSet(i)
  \/ Len(dbSets) < CardSets /\ \E r \in InFlight : LogSetInsert(r) /\ UNCHANGED outside
  \/ \E r \in InFlight : SaveSetOk(r)
  \/ \E r \in InFlight : SaveSetFail(r)
  \/ CanSend(CardReq) /\ \E i \in DOMAIN rows : handleDeleteSet(i)
  \/ \E r \in InFlight : DeleteSetExec(r) /\ UNCHANGED outside
  \/ \E r \in InFlight : DeleteSetDone(r)
  \/ AppRestart /\ CardRender /\ UNCHANGED <<screenVars, stats, previous>>
  \/ CanSend(CardReq) /\ \E w \in 1..CardWorkouts : ResumeCall(w) /\ UNCHANGED outside
  \/ \E r \in InFlight : ResumeFetchWorkout(r) /\ UNCHANGED outside
  \/ \E r \in InFlight : ResumeFetchExercises(r) /\ UNCHANGED outside
  \/ \E r \in InFlight : ResumeRespOk(r) /\ CardRender /\ UNCHANGED <<screenVars, stats, previous>>
  \/ \E r \in InFlight : ResumeFail(r) /\ UNCHANGED outside
SpecLoad == Init /\ [][NextLoad]_vars

\* every operation of the view-model while the app stays open, one request
\* at a time
NextReturn ==
  \/ StartNext(ReturnReq, ReturnWorkouts)
  \/ CanSend(ReturnReq) /\ \E w \in 1..ReturnWorkouts : ResumeCall(w) /\ UNCHANGED outside
  \/ \E r \in InFlight : ResumeFetchWorkout(r) /\ UNCHANGED outside
  \/ \E r \in InFlight : ResumeFetchExercises(r) /\ UNCHANGED outside
  \/ \E r \in InFlight : ResumeRespOk(r) /\ UNCHANGED outside
  \/ \E r \in InFlight : ResumeFail(r) /\ UNCHANGED outside
  \/ LogSetNext(ReturnReq, ReturnSets)
  \/ UpdateSetNext(ReturnReq)
  \/ DeleteSetNext(ReturnReq)
  \/ SwapNext(ReturnReq)
  \/ CloseNext(ReturnReq, ReturnClock)

\* the awaited request of a call settles, with a response or with an error,
\* and the call goes on to its return statement
RequestOps == {"start", "resume", "logSet", "updateSet", "deleteSet", "swap",
               "complete", "abandon"}
Returns(r) ==
  \/ StartRespOk(r) \/ StartFail(r)
  \/ ResumeRespOk(r) \/ ResumeFail(r)
  \/ LogSetRespOk(r) \/ LogSetFail(r)
  \/ UpdateSetRespOk(r) \/ UpdateSetFail(r)
  \/ DeleteSetRespOk(r) \/ DeleteSetFail(r)
  \/ SwapRespOk(r) \/ SwapFail(r)
  \/ CloseRespOk(r) \/ CloseFail(r)
SpecReturn ==
  /\ Init
  /\ [][NextReturn]_vars
  /\ \A o \in RequestOps :
       WF_vars(\E r \in InFlight : r.op = o /\ Returns(r) /\ UNCHANGED outside)

\* sessions with their sets, completed or abandoned, and the look-up of the
\* previous sets
PrevInputs ==
  { [set_number |-> 1, weight_kg |-> 5, reps |-> 2, is_warmup |-> FALSE],
    [set_number |-> 2, weight_kg |-> Null, reps |-> 1, is_warmup |-> FALSE],
    [set_number |-> 2, weight_kg |-> 3, reps |-> 1, is_warmup |-> TRUE] }
NextPrev ==
  \/ StartNext(PrevReq, PrevWorkouts)
  \/ CanSend(PrevReq) /\ \E weId \in CallerSlots, data \in PrevInputs :
       LogSetCall(weId, data, NoCont) /\ UNCHANGED outside
  \/ Len(dbSets) < PrevSets /\ \E r \in InFlight : LogSetInsert(r) /\ UNCHANGED outside
  \/ \E r \in InFlight : LogSetRespOk(r) /\ UNCHANGED outside
  \/ \E r \in InFlight : LogSetFail(r) /\ UNCHANGED outside
  \/ CloseNext(PrevReq, PrevClock)
  \/ CanSend(PrevReq) /\ \E e \in ExerciseIds :
       PrevCall(e) /\ UNCHANGED <<cardVars, screenVars, stats>>
  \/ \E r \in InFlight : PrevFindWorkout(r) /\ UNCHANGED <<cardVars, screenVars, stats>>
  \/ \E r \in InFlight : PrevFetchSets(r) /\ UNCHANGED <<cardVars, screenVars, stats>>
  \/ \E r \in InFlight : PrevReturn(r) /\ UNCHANGED <<cardVars, screenVars, stats>>
  \/ \E r \in InFlight : PrevFail(r) /\ UNCHANGED <<cardVars, screenVars, stats>>
SpecPrev == Init /\ [][NextPrev]_vars

\* the rest timer and the screen that shows it.  The modal covers the card, so
\* a set is completed only while the timer is hidden; its restSeconds are
\* those of a template exercise, or 90
RestSeconds ==
  {TemplateExercises(t)[i].rest_seconds : t \in TemplateIds, i \in 1..2} \cup {90}
NextTimer ==
  \/ ~showRestTimer /\ \E d \in RestSeconds :
       handleSetComplete(d) /\ UNCHANGED <<vmVars, cardVars, stats, previous>>
  \/ Tick /\ UNCHANGED <<vmVars, cardVars, stats, previous>>
  \/ TogglePause /\ UNCHANGED <<vmVars, cardVars, stats, previous>>
  \/ adjustTime(0 - 15) /\ UNCHANGED <<vmVars, cardVars, stats, previous>>
  \/ remainingSeconds + 15 <= TimerMax
       /\ adjustTime(15) /\ UNCHANGED <<vmVars, cardVars, stats, previous>>
  \/ onSkip /\ UNCHANGED <<vmVars, cardVars, stats, previous>>
SpecTimer == Init /\ [][NextTimer]_vars
\* setInterval: while the interval is installed its callback runs
SpecTimerFair == SpecTimer /\ WF_vars(Tick /\ UNCHANGED <<vmVars, cardVars, stats, previous>>)

\* one session and its sets, logged, updated and deleted with two calls in
\* flight
NextRace ==
  \/ StartNext(RaceReq, RaceWorkouts)
  \/ LogSetNext(RaceReq, RaceSets)
  \/ UpdateSetNext(RaceReq)
  \/ DeleteSetNext(RaceReq)
SpecRace == Init /\ [][NextRace]_vars

\* one session, its set and its slots, closed and resumed: a call to close the
\* session and one other call are in flight together
LateOthers ==
  IF \E r \in InFlight : r.op \in {"complete", "abandon"} THEN LateReq ELSE LateReq - 1
NextLate ==
  \/ StartNext(LateOthers, LateWorkouts)
  \/ ResumeNext(LateOthers, LateWorkouts)
  \/ LogSetNext(LateOthers, LateSets)
  \/ UpdateSetNext(LateOthers)
  \/ DeleteSetNext(LateOthers)
  \/ SwapNext(LateOthers)
  \/ CloseNext(LateReq, LateClock)
SpecLate == Init /\ [][NextLate]_vars

\* one session and the set-input card of its first exercise, whose rows are
\* saved with two calls in flight
NextSave ==
  \/ CanSend(1) /\ \E t \in TemplateIds : StartCall(t) /\ UNCHANGED outside
  \/ Len(dbWorkouts) < SaveWorkouts
       /\ \E r \in InFlight : StartInsertWorkout(r) /\ UNCHANGED outside
  \/ \E r \in InFlight : StartInsertExercises(r) /\ UNCHANGED outside
  \/ \E r \in InFlight : StartRespOk(r) /\ CardRender /\ UNCHANGED <<screenVars, stats, previous>>
  \/ \E r \in InFlight : StartFail(r) /\ UNCHANGED outside
  \/ LoadData
  \/ \E i \in DOMAIN rows, v \in {2, 3} : updateSetValue(i, "weight", v)
  \/ CanSend(SaveReq) /\ \E i \in DOMAIN rows : handleSaveSet(i)
  \/ Len(dbSets) < SaveSets /\ \E r \in InFlight : LogSetInsert(r) /\ UNCHANGED outside
  \/ \E r \in InFlight : SaveSetOk(r)
  \/ \E r \in InFlight : SaveSetFail(r)
SpecSave == Init /\ [][NextSave]_vars

\* one session, its sets and its slots: logSet, updateSet, deleteSet and
\* swapExercise with two calls in flight
NextMix ==
  \/ StartNext(1, MixWorkouts)
  \/ LogSetNext(MixReq, MixSets)
  \/ UpdateSetNext(MixReq)
  \/ DeleteSetNext(MixReq)
  \/ SwapNext(MixReq)
SpecMix == Init /\ [][NextMix]_vars

\* the auth container alone: sign-ins, sign-outs and the profile fetches they
\* start, with AuthReq calls on their way
NextAuth ==
  \/ \E r \in BagToSet(authOps) : GetSessionDone(r) /\ AuthStep
  \/ onAuthStateChange /\ AuthStep
  \/ \E r \in BagToSet(authOps) : FetchProfileDone(r) /\ AuthStep
  \/ BagCardinality(authOps) < AuthReq /\ \E uid \in 1..AuthUsers : signIn(uid) /\ AuthStep
  \/ \E r \in BagToSet(authOps) : SignInDone(r) /\ AuthStep
  \/ BagCardinality(authOps) < AuthReq /\ signOut /\ AuthStep
  \/ \E r \in BagToSet(authOps) : SignOutDone(r) /\ AuthStep
SpecAuth == InitAuth /\ [][NextAuth]_vars

\* the active-workout screen: a workout is started when the view-model holds
\* none, sets are logged, updated and deleted and slots swapped while neither
\* the alert nor the modal is open, and the workout is finished from the screen
NextFinish ==
  \/ StartNext(IF workout = NoWorkout THEN FinishReq ELSE 0, FinishWorkouts)
  \/ LogSetNext(IF showFinishModal \/ finishAlert THEN 0 ELSE FinishReq, FinishSets)
  \/ UpdateSetNext(IF showFinishModal \/ finishAlert THEN 0 ELSE FinishReq)
  \/ DeleteSetNext(IF showFinishModal \/ finishAlert THEN 0 ELSE FinishReq)
  \/ SwapNext(IF showFinishModal \/ finishAlert THEN 0 ELSE FinishReq)
  \/ handleFinishWorkout
  \/ KeepGoing
  \/ CanSend(FinishReq) /\ Now <= FinishClock /\ AbandonPress
  \/ CanSend(FinishReq) /\ Now <= FinishClock /\ confirmFinishWorkout
  \/ \E r \in InFlight : CloseExec(r) /\ UNCHANGED outside
  \/ \E r \in InFlight : FinishDone(r)
SpecFinish == Init /\ [][NextFinish]_vars

\* getWorkoutStats on every exercise list of at most StatsMaxExercises
\* exercises with at most StatsMaxSets sets each
SeqsUpTo(S, n) == UNION {[1..k -> S] : k \in 0..n}
StatsSets ==
  {[id |-> 0, workout_exercise_id |-> 0, set_number |-> 1, weight_kg |-> w,
    reps |-> r, is_warmup |-> b] : w \in {Null, 0, 3}, r \in {Null, 1}, b \in BOOLEAN}
StatsLists ==
  SeqsUpTo({[NoExercise EXCEPT !.sets = ss] : ss \in SeqsUpTo(StatsSets, StatsMaxSets)},
           StatsMaxExercises)

InitStats ==
  /\ user = 1
  /\ template = 1
  /\ auth = [session |-> user, user |-> user, profile |-> user, loading |-> FALSE,
             error |-> NoError]
  /\ authOps = EmptyBag
  /\ sb = [session |-> user, events |-> <<>>]
  /\ dbWorkouts = <<>>
  /\ dbExercises = <<>>
  /\ dbSets = <<>>
  /\ workout = NoWorkout
  /\ exercises \in StatsLists
  /\ loading = FALSE
  /\ error = NoError
  /\ reqs = EmptyBag
  /\ result = NoResult
  /\ stats = NoStats
  /\ previous = NoPrevious
  /\ InitCard

SpecStats == InitStats /\ [][GetWorkoutStats]_vars

\* ------------------------------------------------------------- properties
\* C1: under any interleaving of logSet calls that succeed or fail at the
\* backend, the set list of every slot of the active session is as long as the
\* number of logSet calls on that slot that returned with their insert done
\* (the rows inserted for the slot, less those whose response is still on its
\* way), and a logSet that fails leaves the exercise list unchanged.
LogSetCountsInserts ==
  /\ [](\A i \in DOMAIN exercises :
          LET weId == exercises[i].id
              returning == {r \in InFlight :
                              r.op = "logSet" /\ r.stage = "ok" /\ r.a = weId}
          IN  Len(exercises[i].sets)
                = Cardinality(SetIdsOf(weId)) - Cardinality(returning))
  /\ [][(result'.op = "logSet" /\ ~result'.success) => exercises' = exercises]_vars

\* a logSet has just failed on a session one of whose slots holds two sets
LogSetCountsInsertsWitness ==
  /\ result = Result("logSet", FALSE, "Failed to log set")
  /\ \E i \in DOMAIN exercises : Len(exercises[i].sets) = 2

\* C2: for every exercise list, totalSets is the number of sets that are not
\* warm-ups, and totalVolume is the whole number nearest to the sum of
\* weight_kg * reps over the sets that are not warm-ups and have both a
\* weight_kg and a reps (weights are in 1/WeightScale kg).
StatsCountWorkingSets ==
  stats # NoStats =>
    LET counted(s) == ~s.is_warmup
        present(s) == s.weight_kg # Null /\ s.reps # Null
        count == SumSeq([i \in DOMAIN exercises |->
                   Cardinality({k \in DOMAIN exercises[i].sets :
                                  counted(exercises[i].sets[k])})])
        volume == SumSeq([i \in DOMAIN exercises |->
                    SumSeq([k \in DOMAIN exercises[i].sets |->
                      LET s == exercises[i].sets[k]
                      IN  IF counted(s) /\ present(s) THEN s.weight_kg * s.reps ELSE 0])])
    IN  /\ stats.totalSets = count
        /\ 2 * WeightScale * stats.totalVolume - 2 * volume
             \in (0 - WeightScale)..WeightScale

\* the stats of a list with a warm-up set that has a weight and reps, a
\* working set without a weight, and a volume that is not a whole number
StatsCountWorkingSetsWitness ==
  /\ stats # NoStats
  /\ stats.totalSets = 3
  /\ stats.totalVolume = 2
  /\ \E s \in LocalSets : s.is_warmup /\ s.weight_kg = 3 /\ s.reps = 1
  /\ \E s \in LocalSets : ~s.is_warmup /\ s.weight_kg = Null

\* C3: after a delete that succeeded, the set numbers of the remaining sets of
\* the exercise are exactly 1..N (stated for the deletes that start from
\* numbers that are 1..N+1).
DeleteRenumbersDense ==
  [][\A r \in InFlight :
       (r.op = "deleteSet" /\ reqs' = Drop(r)
          /\ result' = Result("deleteSet", TRUE, NoError)) =>
         \A i \in DOMAIN exercises :
           LET Dense(ss) == {ss[k].set_number : k \in DOMAIN ss} = 1..Len(ss)
           IN  (exercises[i].id = r.b /\ Dense(exercises[i].sets))
                 => Dense(exercises'[i].sets)]_vars

\* C4: no two persisted rows of workout_sets of one workout exercise have the
\* same set_number, whatever rows the card has added, saved and deleted.
PersistedSetNumbersUnique ==
  \A a, b \in LiveSetIds :
    (a # b /\ dbSets[a].workout_exercise_id = dbSets[b].workout_exercise_id)
      => dbSets[a].set_number # dbSets[b].set_number

\* C5: a swapExercise that succeeds leaves the slot with an empty local set
\* list, and neither the backend's update nor the client's handling of the
\* response removes or changes a row of workout_sets: the rows persisted for
\* the slot are still there.
SwapEmptiesLocalKeepsRows ==
  [][\A r \in InFlight :
       /\ SwapExec(r) =>
            \A k \in SetIdsOf(r.a) : k \in DOMAIN dbSets' /\ dbSets'[k] = dbSets[k]
       /\ SwapRespOk(r) =>
            /\ \A i \in DOMAIN exercises' :
                 exercises'[i].id = r.a => exercises'[i].sets = <<>>
            /\ \A k \in SetIdsOf(r.a) : k \in DOMAIN dbSets' /\ dbSets'[k] = dbSets[k]
            /\ Len(dbSets') = Len(dbSets)]_vars

\* a swap has just succeeded on a slot with two persisted sets, both of which
\* the local list held (no response is on its way)
SwapEmptiesLocalKeepsRowsWitness ==
  /\ result = Result("swapExercise", TRUE, NoError)
  /\ reqs = EmptyBag
  /\ \E i \in DOMAIN exercises :
       /\ exercises[i].is_substitution
       /\ exercises[i].sets = <<>>
       /\ Cardinality(SetIdsOf(exercises[i].id)) = 2

\* C6: a swapExercise that succeeds changes the targeted slot only: no row of
\* workout_exercises and no local slot is added or removed, the slot keeps
\* its id and its place, it refers to the new exercise with is_substitution
\* true, and every other row and every other slot (sets included) is as before.
SwapChangesTargetOnly ==
  [][\A r \in InFlight :
       /\ SwapExec(r) =>
            /\ Len(dbExercises') = Len(dbExercises)
            /\ \A k \in DOMAIN dbExercises :
                 IF k = r.a
                 THEN /\ dbExercises'[k].exercise_id = r.b
                      /\ dbExercises'[k].is_substitution
                      /\ dbExercises'[k].workout_id = dbExercises[k].workout_id
                      /\ dbExercises'[k].order_index = dbExercises[k].order_index
                 ELSE dbExercises'[k] = dbExercises[k]
       /\ SwapRespOk(r) =>
            /\ Len(exercises') = Len(exercises)
            /\ \A i \in DOMAIN exercises :
                 IF exercises[i].id = r.a
                 THEN /\ exercises'[i].id = r.a
                      /\ exercises'[i].order_index = exercises[i].order_index
                      /\ exercises'[i].exercise_id = r.b
                      /\ exercises'[i].is_substitution
                 ELSE exercises'[i] = exercises[i]]_vars

\* a swap has just succeeded while another slot, not swapped, holds a set
SwapChangesTargetOnlyWitness ==
  /\ result = Result("swapExercise", TRUE, NoError)
  /\ \E i, j \in DOMAIN exercises :
       /\ i # j
       /\ exercises[i].is_substitution
       /\ ~exercises[j].is_substitution
       /\ exercises[j].sets # <<>>

\* C7: when resumeWorkout has succeeded the local session holds exactly the
\* rows of workout_exercises and of workout_sets persisted for the workout,
\* the exercises in the order of order_index and the sets of each exercise in
\* the order of set_number.
ResumeRebuildsOrdered ==
  result = Result("resumeWorkout", TRUE, NoError) =>
    LET persisted == {k \in DOMAIN dbExercises : dbExercises[k].workout_id = workout}
    IN  /\ Len(exercises) = Cardinality(persisted)
        /\ {exercises[i].id : i \in DOMAIN exercises} = persisted
        /\ \A i \in DOMAIN exercises :
             LET ex == exercises[i]
             IN  /\ ex.exercise_id = dbExercises[ex.id].exercise_id
                 /\ ex.order_index = dbExercises[ex.id].order_index
                 /\ Len(ex.sets) = Cardinality(SetIdsOf(ex.id))
                 /\ Range(ex.sets) = {SetRow(k) : k \in SetIdsOf(ex.id)}
                 /\ \A k \in 1..(Len(ex.sets) - 1) :
                      ex.sets[k].set_number <= ex.sets[k + 1].set_number
        /\ \A i \in 1..(Len(exercises) - 1) :
             exercises[i].order_index <= exercises[i + 1].order_index

\* C8: the backend's update for completeWorkout sets the status of the
\* workout of the session to completed and its completed_at to a time, for
\* abandonWorkout to abandoned; when the call returns with success the local
\* state is cleared: no workout, no exercises, loading false, error null.
CloseSetsStatusAndClears ==
  [][\A r \in InFlight :
       /\ CloseExec(r) =>
            /\ r.op = "complete" => dbWorkouts'[r.a].status = "completed"
            /\ r.op = "abandon" => dbWorkouts'[r.a].status = "abandoned"
            /\ dbWorkouts'[r.a].completed_at # Null
            /\ dbWorkouts'[r.a].completed_at >= 1
       /\ CloseRespOk(r) =>
            /\ workout' = NoWorkout
            /\ exercises' = <<>>
            /\ loading' = FALSE
            /\ error' = NoError
            /\ result' = Result(IF r.op = "complete" THEN "completeWorkout"
                                ELSE "abandonWorkout", TRUE, NoError)]_vars

\* abandonWorkout has just succeeded on a session, after another session was
\* completed
CloseSetsStatusAndClearsWitness ==
  /\ result = Result("abandonWorkout", TRUE, NoError)
  /\ workout = NoWorkout /\ exercises = <<>>
  /\ \E v, w \in DOMAIN dbWorkouts :
       /\ dbWorkouts[v].status = "completed" /\ dbWorkouts[v].completed_at # Null
       /\ dbWorkouts[w].status = "abandoned" /\ dbWorkouts[w].completed_at # Null

\* C9: a step in which one of the eight operations returns a failure returns
\* an error string and leaves state.workout and state.exercises as they were;
\* so does every step that is not the successful return of a call, from the
\* call to its failure (the restart of the app aside).
FailureLeavesSession ==
  [][/\ (result'.op # "none" /\ ~result'.success) =>
          /\ result'.error # NoError
          /\ workout' = workout
          /\ exercises' = exercises
     /\ (workout' # workout \/ exercises' # exercises) =>
          \/ result'.op # "none" /\ result'.success
          \/ AppRestart]_vars

\* completeWorkout has just failed on a session that holds a set
FailureLeavesSessionWitness ==
  /\ result = Result("completeWorkout", FALSE, "Failed to complete workout")
  /\ workout # NoWorkout
  /\ LocalSets # {}

\* C10: the user has at most one row of workouts with status in_progress,
\* whatever starts, resumes, completes and abandons the screens allow.
OneInProgressWorkout ==
  Cardinality({w \in DOMAIN dbWorkouts : dbWorkouts[w].status = "in_progress"}) <= 1

\* C11: a logSet called while the view-model holds no workout returns the
\* failure 'No active workout', sends no request, inserts no row and leaves
\* the local state as it was; a row of workout_sets is added only by the
\* insert of one logSet request, one row with the request's data, and logSet
\* returns success only for a request whose insert was done.
LogSetNeedsSession ==
  [][/\ \A weId \in CallerSlots, data \in SetInputs :
          (workout = NoWorkout /\ LogSetCall(weId, data, NoCont)) =>
            /\ result' = Result("logSet", FALSE, "No active workout")
            /\ reqs' = reqs
            /\ dbSets' = dbSets
            /\ UNCHANGED stateVars
     /\ result' = Result("logSet", FALSE, "No active workout") =>
          reqs' = reqs /\ dbSets' = dbSets /\ UNCHANGED stateVars
     /\ Len(dbSets') # Len(dbSets) =>
          /\ Len(dbSets') = Len(dbSets) + 1
          /\ \A k \in DOMAIN dbSets : dbSets'[k] = dbSets[k]
          /\ \E r \in InFlight :
               /\ r.op = "logSet" /\ r.stage = "sent"
               /\ reqs' = Replace(r, [r EXCEPT !.stage = "ok", !.b = Len(dbSets')])
               /\ dbSets'[Len(dbSets')].workout_exercise_id = r.a
               /\ dbSets'[Len(dbSets')].set_number = r.data.set_number
     /\ result' = Result("logSet", TRUE, NoError) =>
          /\ dbSets' = dbSets
          /\ \E r \in InFlight :
               r.op = "logSet" /\ r.stage = "ok" /\ reqs' = Drop(r)]_vars

\* logSet has just been refused on a view-model without a workout, after a
\* session whose set is persisted was closed
LogSetNeedsSessionWitness ==
  /\ result = Result("logSet", FALSE, "No active workout")
  /\ workout = NoWorkout
  /\ LiveSetIds # {}

\* C12: updateSet and deleteSet are reflected only after a successful round
\* trip: a step in which one of them returns a failure leaves the view-model's
\* exercise and set lists and the rows of the set-input card as they were.
FailedWriteStaysShown ==
  [][(result'.op \in {"updateSet", "deleteSet"} /\ ~result'.success) =>
       (exercises' = exercises /\ rows' = rows)]_vars

\* C13: a successful startWorkout on a template with N template exercises
\* leaves N workout_exercises rows of the new workout and N local slots, one
\* per template exercise, and each local slot carries the target sets, target
\* reps and rest seconds of the template exercise named by its
\* template_exercise_id.
StartInstantiatesTargets ==
  [][result' = Result("startWorkout", TRUE, NoError) =>
       LET tes == TemplateExercises(template)
       IN  /\ Cardinality({i \in DOMAIN dbExercises' :
                            dbExercises'[i].workout_id = workout'}) = Len(tes)
           /\ Len(exercises') = Len(tes)
           /\ \A k \in DOMAIN tes :
                /\ exercises'[k].template_exercise_id = tes[k].id
                /\ exercises'[k].targetSets = tes[k].target_sets
                /\ exercises'[k].targetReps = tes[k].target_reps
                /\ exercises'[k].restSeconds = tes[k].rest_seconds]_vars

\* C14: every mutation of the view-model terminates by returning a result
\* tuple: what a call returns has success = TRUE exactly when its error is
\* null and success = FALSE exactly when its error is a non-empty string; a
\* request leaves the requests in flight only in a step in which its call
\* returns; and while a call of an operation is awaiting its request, a call of
\* that operation eventually returns.
MutationsReturnTuples ==
  /\ [](/\ result.success \in BOOLEAN
        /\ result.success <=> result.error = NoError
        /\ ~result.success <=> (result.error # NoError /\ result.error # ""))
  /\ [][\A r \in InFlight :
          (r \notin BagToSet(reqs') \/ CopiesIn(r, reqs') < CopiesIn(r, reqs)) =>
            \/ result' # NoResult /\ BagCardinality(reqs') = BagCardinality(reqs) - 1
            \/ \E s \in BagToSet(reqs') : s.op = r.op /\ s.stage # r.stage]_vars
  /\ \A o \in RequestOps :
       LET name == CASE o = "start" -> "startWorkout"
                     [] o = "resume" -> "resumeWorkout"
                     [] o = "swap" -> "swapExercise"
                     [] o = "complete" -> "completeWorkout"
                     [] o = "abandon" -> "abandonWorkout"
                     [] OTHER -> o
       IN  (\E r \in InFlight : r.op = o) ~> (result.op = name)
MutationsReturnTuplesWitness ==
  /\ result = Result("updateSet", FALSE, "Failed to update set")
  /\ workout # NoWorkout
  /\ LocalSets # {}

\* C15: what getPreviousSets(exerciseId) returns: [] to a caller that is not
\* authenticated, [] when a request failed or no completed workout has the
\* exercise, and else the sets of the exercise in the most recently completed
\* workout that has it, those that are no warm-up and have weight and reps, in
\* ascending set_number order; the session state stays as it was.
PreviousSetsOfLatestWorkout ==
  [][/\ (user = NoUser /\ previous' # previous) => (previous' = <<>> /\ UNCHANGED stateVars)
     /\ \A r \in InFlight :
          (r.op = "previous" /\ reqs' = Drop(r)) =>
            LET done == CompletedWith(r.a)
                recent == CHOOSE w \in done :
                            \A v \in done : dbWorkouts[v].completed_at <= dbWorkouts[w].completed_at
                ids == {k \in LiveSetIds :
                          /\ dbExercises[dbSets[k].workout_exercise_id].workout_id = recent
                          /\ dbExercises[dbSets[k].workout_exercise_id].exercise_id = r.a
                          /\ ~dbSets[k].is_warmup
                          /\ dbSets[k].weight_kg # Null /\ dbSets[k].reps # Null}
                entry(k) == [exercise_id |-> r.a, set_number |-> dbSets[k].set_number,
                             weight_kg |-> dbSets[k].weight_kg, reps |-> dbSets[k].reps]
            IN  /\ UNCHANGED stateVars
                /\ IF done = {} \/ r.stage # "ok"
                   THEN previous' = <<>>
                   ELSE /\ \E q \in Orderings(ids) :
                             previous' = [i \in DOMAIN q |-> entry(q[i])]
                        /\ \A i, j \in DOMAIN previous' :
                             i < j => previous'[i].set_number <= previous'[j].set_number]_vars

\* C16: completion (the vibration and onClose, which hides the timer) is
\* signalled only in a step that finds the timer visible, not paused and at
\* one second or less, and leaves it hidden at zero; and when the timer is
\* paused only finitely often and extended only finitely often, a timer that
\* is visible and not paused is eventually hidden: it reaches zero and
\* signals completion unless the user skips the rest.
RestEndsUnlessHeld ==
  /\ [][(~vibrated /\ vibrated') =>
          /\ showRestTimer /\ ~isPaused /\ remainingSeconds <= 1
          /\ ~showRestTimer' /\ remainingSeconds' = 0]_vars
  /\ (/\ <>[]~isPaused
      /\ <>[][~(showRestTimer /\ remainingSeconds' > remainingSeconds)]_vars)
       => [](showRestTimer /\ ~isPaused =>
               <>(~showRestTimer /\ (vibrated => remainingSeconds = 0)))
RestEndsUnlessHeldWitness ==
  /\ vibrated /\ ~showRestTimer /\ remainingSeconds = 0
  /\ restDuration = 60

\* C16 as stated: ... a timer that is visible and not paused eventually
\* reaches zero and signals completion.
RestReachesZero ==
  /\ [][(~vibrated /\ vibrated') =>
          /\ showRestTimer /\ ~isPaused /\ remainingSeconds <= 1
          /\ ~showRestTimer' /\ remainingSeconds' = 0]_vars
  /\ (/\ <>[]~isPaused
      /\ <>[][~(showRestTimer /\ remainingSeconds' > remainingSeconds)]_vars)
       => [](showRestTimer /\ ~isPaused =>
               <>(vibrated /\ ~showRestTimer /\ remainingSeconds = 0))

\* C17: each time the rest timer becomes visible it starts at the configured
\* duration and unpaused, whatever remaining time and paused flag the previous
\* rest left.
RestStartsAtDuration ==
  [][(~showRestTimer /\ showRestTimer') =>
       (remainingSeconds' = restDuration' /\ ~isPaused')]_vars
RestStartsAtDurationWitness ==
  /\ showRestTimer /\ ~isPaused
  /\ remainingSeconds = restDuration
  /\ restDuration = 120

StartLeavesOrphanWorkout ==
  [][\A r \in InFlight :
       /\ (r.op = "start" /\ r.stage = "sent"
             /\ \E s \in BagToSet(reqs') : s.op = "start" /\ s.stage = "sent2") =>
            /\ Len(dbWorkouts') = Len(dbWorkouts) + 1
            /\ dbWorkouts'[Len(dbWorkouts')].status = "in_progress"
            /\ \A e \in DOMAIN dbExercises' : dbExercises'[e].workout_id # Len(dbWorkouts')
       /\ (r.op = "start" /\ r.stage = "sent2" /\ reqs' = Drop(r)
             /\ result'.op = "startWorkout") =>
            /\ ~result'.success /\ result'.error # NoError /\ result'.error # ""
            /\ UNCHANGED dbVars
            /\ r.b \in DOMAIN dbWorkouts'
            /\ \A e \in DOMAIN dbExercises' : dbExercises'[e].workout_id # r.b
            /\ workout' = workout /\ exercises' = exercises]_vars
StartLeavesOrphanWorkoutWitness ==
  /\ result = Result("startWorkout", FALSE, "Failed to start workout")
  /\ \E w \in DOMAIN dbWorkouts :
       /\ dbWorkouts[w].status = "in_progress"
       /\ \A e \in DOMAIN dbExercises : dbExercises[e].workout_id # w
  /\ workout = NoWorkout

\* C20: with the response of an updateSet on set A and the response of a
\* deleteSet on another set B both on their way, handling them in either order
\* gives the same exercise and set lists: A replaced by the updated set, B
\* removed, everything else as it was; and the step that handles one of them
\* leaves a state from which the other gives that same result.
UpdateAndDeleteCommute ==
  /\ [](\A u, d \in InFlight :
          (/\ u.op = "updateSet" /\ u.stage = "ok"
           /\ d.op = "deleteSet" /\ d.stage = "ok"
           /\ u.a # d.a) =>
            LET updateFirst == RemoveSet(ReplaceSet(exercises, u.a, UpdatedSet(u)), d.a, d.b)
                deleteFirst == ReplaceSet(RemoveSet(exercises, d.a, d.b), u.a, UpdatedSet(u))
            IN  /\ updateFirst = deleteFirst
                /\ Len(updateFirst) = Len(exercises)
                /\ \A i \in DOMAIN exercises :
                     /\ [updateFirst[i] EXCEPT !.sets = <<>>] = [exercises[i] EXCEPT !.sets = <<>>]
                     /\ updateFirst[i].sets =
                          LET kept == SelectSeq(exercises[i].sets, LAMBDA s : s.id # d.a)
                          IN  [k \in DOMAIN kept |->
                                 IF kept[k].id = u.a THEN UpdatedSet(u) ELSE kept[k]])
  /\ [][\A u, d \in InFlight :
          (/\ u.op = "updateSet" /\ u.stage = "ok"
           /\ d.op = "deleteSet" /\ d.stage = "ok"
           /\ u.a # d.a) =>
            /\ (reqs' = Drop(d) /\ result' = Result("deleteSet", TRUE, NoError)) =>
                 ReplaceSet(exercises', u.a, UpdatedSet(u)) =
                   RemoveSet(ReplaceSet(exercises, u.a, UpdatedSet(u)), d.a, d.b)
            /\ (reqs' = Drop(u) /\ result' = Result("updateSet", TRUE, NoError)) =>
                 RemoveSet(exercises', d.a, d.b) =
                   ReplaceSet(RemoveSet(exercises, d.a, d.b), u.a, UpdatedSet(u))]_vars
UpdateAndDeleteCommuteWitness ==
  /\ result = Result("deleteSet", TRUE, NoError)
  /\ \E u \in InFlight :
       /\ u.op = "updateSet" /\ u.stage = "ok"
       /\ \E s \in LocalSets : s.id = u.a /\ s.workout_exercise_id = 1 /\ s # UpdatedSet(u)
       /\ \E s \in LocalSets : s.id # u.a /\ s.workout_exercise_id = 1
  /\ \E b \in DOMAIN dbSets : dbSets[b] = Tombstone /\ \A s \in LocalSets : s.id # b

\* C21: a response of logSet, updateSet, deleteSet or swapExercise that is
\* handled while the session is cleared (no workout, no exercises) leaves it
\* cleared, and a cleared session is repopulated only by the step in which
\* startWorkout or resumeWorkout returns success.
LateResponseKeepsCleared ==
  [][(workout = NoWorkout /\ exercises = <<>>) =>
       /\ result'.op \in {"logSet", "updateSet", "deleteSet", "swapExercise"} =>
            (workout' = NoWorkout /\ exercises' = <<>>)
       /\ (workout' # NoWorkout \/ exercises' # <<>>) =>
            /\ result'.op \in {"startWorkout", "resumeWorkout"}
            /\ result'.success]_vars
LateResponseKeepsClearedWitness ==
  /\ result = Result("logSet", TRUE, NoError)
  /\ workout = NoWorkout /\ exercises = <<>>
  /\ \E w \in DOMAIN dbWorkouts : dbWorkouts[w].status = "completed"
  /\ LiveSetIds # {}

\* C22: while the logSet call of a row's save is pending, the save button of
\* that row is not offered.
PendingSaveIsMarked ==
  \A r \in InFlight :
    (r.op = "logSet" /\ r.cont # NoCont) => ~SaveOffered(r.cont.row)

\* C23: a row of workouts whose status is completed or abandoned keeps its
\* status and its completed_at in every step.
ClosedWorkoutStaysClosed ==
  [][\A w \in DOMAIN dbWorkouts :
       dbWorkouts[w].status \in {"completed", "abandoned"} =>
         /\ dbWorkouts'[w].status = dbWorkouts[w].status
         /\ dbWorkouts'[w].completed_at = dbWorkouts[w].completed_at]_vars

LoadShowsEveryPersistedSet ==
  [][(cardKey # NoKey /\ cardLoading /\ ~cardLoading') =>
       \A id \in SetIdsOf(cardKey[1]) :
         ~dbSets[id].is_warmup =>
           /\ Cardinality({i \in DOMAIN rows' : rows'[i].setId = id}) = 1
           /\ \A i \in DOMAIN rows' :
                rows'[i].setId = id =>
                  /\ rows'[i].isCompleted
                  /\ rows'[i].weight = dbSets[id].weight_kg
                  /\ rows'[i].reps = dbSets[id].reps]_vars

\* C26: every completed row of the card whose set is persisted shows that
\* set's weight_kg and reps.
CompletedRowShowsPersisted ==
  \A i \in DOMAIN rows :
    (rows[i].isCompleted /\ rows[i].setId \in LiveSetIds) =>
      /\ rows[i].weight = dbSets[rows[i].setId].weight_kg
      /\ rows[i].reps = dbSets[rows[i].setId].reps

\* C27: a slot that the session holds before and after a step carries the
\* same target sets, target reps and rest seconds after it.
SlotKeepsTargets ==
  [][\A i \in DOMAIN exercises : \A j \in DOMAIN exercises' :
       (workout' = workout /\ exercises'[j].id = exercises[i].id) =>
         /\ exercises'[j].targetSets = exercises[i].targetSets
         /\ exercises'[j].targetReps = exercises[i].targetReps
         /\ exercises'[j].restSeconds = exercises[i].restSeconds]_vars

\* C28: in the auth container a profile that is not null comes with a session
\* and a user that are not null.
ProfileImpliesSession ==
  auth.profile # NoProfile => (auth.session # NoSession /\ auth.user # NoUser)

\* C29: in the step in which completeWorkout returns success to the finish
\* modal, the total sets and the total volume the modal shows are those the
\* summary screen computes for the workout from the backend.
FinishTotalsMatchSummary ==
  [][(showFinishModal /\ workout # NoWorkout
        /\ result' = Result("completeWorkout", TRUE, NoError)) =>
       /\ getWorkoutStats(exercises).totalSets = fetchWorkoutStats(workout).totalSets
       /\ getWorkoutStats(exercises).totalVolume = fetchWorkoutStats(workout).totalVolume]_vars

\* C30: on the active-workout screen Finish opens the finish modal only when
\* the local lists hold a non-warmup set, and with none it opens the abandon
\* alert, sends nothing and leaves the modal closed; completeWorkout is called
\* only from the open modal, which stays with the session it was opened for;
\* and a workout is marked completed only for such a call.
FinishNeedsWorkingSet ==
  [][/\ (~showFinishModal /\ showFinishModal') =>
          /\ getWorkoutStats(exercises).totalSets > 0
          /\ workout # NoWorkout /\ UNCHANGED <<workout, exercises, reqs, dbVars>>
     /\ (handleFinishWorkout /\ getWorkoutStats(exercises).totalSets = 0) =>
          /\ finishAlert' /\ ~showFinishModal'
          /\ UNCHANGED <<workout, exercises, reqs, dbVars>>
     /\ \A r \in InFlight' \ InFlight :
          (r.op = "complete" /\ r.stage = "sent") =>
            (showFinishModal /\ showFinishModal' /\ r.a = workout)
     /\ (showFinishModal /\ showFinishModal') => workout' = workout
     /\ \A w \in DOMAIN dbWorkouts :
          (dbWorkouts[w].status # "completed" /\ dbWorkouts'[w].status = "completed") =>
            \E r \in InFlight : r.op = "complete" /\ r.a = w /\ r.stage = "sent"]_vars

FinishNeedsWorkingSetWitness ==
  /\ showFinishModal
  /\ \E w \in DOMAIN dbWorkouts : dbWorkouts[w].status = "completed"
  /\ getWorkoutStats(exercises).totalSets = 0
  /\ workout # NoWorkout

====
